---- MODULE Spec2Model ----
(***************************************************************************)
(* CARYDES (src/main.py): whitelist authorisation, per-user sliding-window *)
(* rate limiting, bounded conversation memory, the retrying inference      *)
(* client and the message handler that ties them together.                 *)
(*                                                                         *)
(* Text is a sequence of one-character strings.  The characters NUL, BEL   *)
(* and DEL are written by name.  Time is an integer number of seconds.     *)
(* A Python dict is a function whose DOMAIN is the set of keys present.    *)
(***************************************************************************)
EXTENDS Integers, Sequences, FiniteSets, TLC

\* ------------------------------------------------------------------ bounds
MaxTicks == 3
TickStep == 20
MaxCalls == 12
MaxUpdates == 2
MaxLMCalls == 2
MaxAppends == 4
MaxHistory == 4
MaxBudget == 2
MaxChunkText == 4
MaxChunkLen == 3
MaxStatusCalls == 4
MaxSanText == 4
MaxSanLen == 3
MaxCalls2 == 4

\* updates (messages and commands) dispatched in the command runs
MaxCmdUpdates == 3

\* send_to_lm_studio calls in the runs with two coroutines
MaxOverlapCalls == 2

\* ------------------------------------------------------- program constants
RATE_LIMIT_WINDOW == 60
RATE_LIMIT_MAX_MESSAGES == 10
TELEGRAM_MAX_MESSAGE_LENGTH == 4096
DEFAULT_MAX_MESSAGE_LENGTH == 2000
DEFAULT_MAX_CONVERSATION_HISTORY == 10
DEFAULT_MAX_RETRIES == 2
LM_TRUNCATE == 4000
BREAK_LOOKBACK == 200

\* -------------------------------------------------------------- dictionaries
EmptyDict == <<>>

DictGet(d, k, default) == IF k \in DOMAIN d THEN d[k] ELSE default

DictPut(d, k, v) == [x \in (DOMAIN d) \cup {k} |-> IF x = k THEN v ELSE d[x]]

\* ------------------------------------------------------------------- text
Whitespace == {" ", "\n", "\t", "\r"}

\* the class [\x00-\x08\x0b\x0c\x0e-\x1f\x7f] of sanitize_input
ControlChars == {"NUL", "BEL", "DEL"}

UpperLetters ==
  <<"A", "B", "C", "D", "E", "F", "G", "H", "I", "J", "K", "L", "M",
    "N", "O", "P", "Q", "R", "S", "T", "U", "V", "W", "X", "Y", "Z">>

LowerLetters ==
  <<"a", "b", "c", "d", "e", "f", "g", "h", "i", "j", "k", "l", "m",
    "n", "o", "p", "q", "r", "s", "t", "u", "v", "w", "x", "y", "z">>

\* str.lower() of one character
Lower(c) ==
  IF \E i \in 1..Len(UpperLetters) : UpperLetters[i] = c
  THEN LowerLetters[CHOOSE i \in 1..Len(UpperLetters) : UpperLetters[i] = c]
  ELSE c

Take(s, n) == IF n <= 0 THEN <<>> ELSE SubSeq(s, 1, IF n < Len(s) THEN n ELSE Len(s))

Drop(s, n) == IF n <= 0 THEN s ELSE SubSeq(s, n + 1, Len(s))

\* s[-n:] for n > 0
LastN(s, n) == IF Len(s) <= n THEN s ELSE SubSeq(s, Len(s) - n + 1, Len(s))

RECURSIVE LStrip(_)
LStrip(s) == IF s # <<>> /\ Head(s) \in Whitespace THEN LStrip(Tail(s)) ELSE s

RECURSIVE RStrip(_)
RStrip(s) ==
  IF s # <<>> /\ s[Len(s)] \in Whitespace THEN RStrip(SubSeq(s, 1, Len(s) - 1)) ELSE s

Strip(s) == RStrip(LStrip(s))

RemoveControl(s) == SelectSeq(s, LAMBDA c : c \notin ControlChars)

sanitize_input_StripFirst(text, max_length) ==
  IF text = <<>> THEN <<>>
  ELSE Take(Strip(RemoveControl(text)), max_length)

sanitize_input(text, max_length) ==
  IF text = <<>> THEN <<>>
  ELSE Strip(Take(RemoveControl(text), max_length))

\* case-insensitive literal prefix
HasPrefixCI(s, lit) ==
  /\ Len(s) >= Len(lit)
  /\ \A i \in 1..Len(lit) : Lower(s[i]) = lit[i]

\* \s*:?\s*   (colon optional)
SkipOptColon(s) ==
  LET a == LStrip(s)
  IN IF a # <<>> /\ Head(a) = ":" THEN LStrip(Tail(a)) ELSE a

\* ^<lit>\s*:?\s*
StripSlashPattern(s, lit) ==
  IF HasPrefixCI(s, lit) THEN SkipOptColon(Drop(s, Len(lit))) ELSE s

\* ^\[system\]
StripBracketPattern(s) ==
  LET lit == <<"[", "s", "y", "s", "t", "e", "m", "]">>
  IN IF HasPrefixCI(s, lit) THEN Drop(s, Len(lit)) ELSE s

RoleWords ==
  << <<"s", "y", "s", "t", "e", "m">>,
     <<"a", "s", "s", "i", "s", "t", "a", "n", "t">>,
     <<"u", "s", "e", "r">> >>

\* ^(system|assistant|user)\s*:\s*   (colon required; first alternative that
\* lets the whole pattern match)
StripRolePattern(s) ==
  LET matches(w) == /\ HasPrefixCI(s, w)
                    /\ LET a == LStrip(Drop(s, Len(w))) IN a # <<>> /\ Head(a) = ":"
      rest(w) == LStrip(Tail(LStrip(Drop(s, Len(w)))))
  IN IF matches(RoleWords[1]) THEN rest(RoleWords[1])
     ELSE IF matches(RoleWords[2]) THEN rest(RoleWords[2])
     ELSE IF matches(RoleWords[3]) THEN rest(RoleWords[3])
     ELSE s

sanitize_for_lm_studio(text) ==
  IF text = <<>> THEN <<>>
  ELSE LET s1 == StripSlashPattern(text, <<"/", "s", "y", "s", "t", "e", "m">>)
           s2 == StripSlashPattern(s1, <<"/", "p", "r", "o", "m", "p", "t">>)
           s3 == StripBracketPattern(s2)
           s4 == StripRolePattern(s3)
           s5 == SelectSeq(s4, LAMBDA c : c # "NUL")
       IN Take(s5, LM_TRUNCATE)

RECURSIVE EscapeNewlines(_)
EscapeNewlines(s) ==
  IF s = <<>> THEN <<>>
  ELSE LET c == Head(s)
       IN (IF c = "\n" THEN <<"\\", "n">>
           ELSE IF c = "\r" THEN <<"\\", "r">>
           ELSE <<c>>) \o EscapeNewlines(Tail(s))

sanitize_for_log(message) == IF message = <<>> THEN <<>> ELSE EscapeNewlines(message)

BreakChars == {"\n", " ", ".", ",", "!", "?", ";", ":"}

BreakPoint_StartsAtLimit(remaining, max_length) ==
  LET lo == IF max_length - BREAK_LOOKBACK > 0 THEN max_length - BREAK_LOOKBACK ELSE 0
      hits == {i \in (lo + 1)..max_length : remaining[i + 1] \in BreakChars}
  IN IF hits = {} THEN max_length
     ELSE (CHOOSE i \in hits : \A j \in hits : j <= i) + 1

\* the for loop of chunk_message: i runs from max_length - 1 down to
\* max(0, max_length - 200) + 1; indices are 0-based as in the source
BreakPoint(remaining, max_length) ==
  LET lo == IF max_length - BREAK_LOOKBACK > 0 THEN max_length - BREAK_LOOKBACK ELSE 0
      hits == {i \in (lo + 1)..(max_length - 1) : remaining[i + 1] \in BreakChars}
  IN IF hits = {} THEN max_length
     ELSE (CHOOSE i \in hits : \A j \in hits : j <= i) + 1

RECURSIVE ChunkLoop(_, _)
ChunkLoop(remaining, max_length) ==
  IF remaining = <<>> THEN <<>>
  ELSE IF Len(remaining) <= max_length THEN <<remaining>>
  ELSE LET bp == BreakPoint(remaining, max_length)
       IN <<Take(remaining, bp)>> \o ChunkLoop(Drop(remaining, bp), max_length)

chunk_message(message, max_length) ==
  IF Len(message) <= max_length THEN <<message>> ELSE ChunkLoop(message, max_length)

\* ----------------------------------------------------------- fixed texts
\* one element per character; the leading pictograph of a reply is written
\* by name (CROSS, HOURGLASS, STOPWATCH)
T_INVALID_RESPONSE ==
  <<"CROSS", " ", "I", "n", "v", "a", "l", "i", "d", " ", "r", "e", "s",
    "p", "o", "n", "s", "e", " ", "f", "r", "o", "m", " ", "L", "M",
    " ", "S", "t", "u", "d", "i", "o", ".">>

T_EMPTY_RESPONSE ==
  <<"CROSS", " ", "E", "m", "p", "t", "y", " ", "r", "e", "s", "p", "o",
    "n", "s", "e", " ", "f", "r", "o", "m", " ", "L", "M", " ", "S",
    "t", "u", "d", "i", "o", ".">>

T_SERVICE_ERROR ==
  <<"CROSS", " ", "E", "r", "r", "o", "r", " ", "f", "r", "o", "m", " ",
    "A", "I", " ", "s", "e", "r", "v", "i", "c", "e", ".", " ", "P",
    "l", "e", "a", "s", "e", " ", "t", "r", "y", " ", "a", "g", "a",
    "i", "n", ".">>

T_TIMED_OUT ==
  <<"STOPWATCH", " ", "R", "e", "q", "u", "e", "s", "t", " ", "t", "i", "m",
    "e", "d", " ", "o", "u", "t", ".", " ", "T", "h", "e", " ", "A",
    "I", " ", "m", "i", "g", "h", "t", " ", "b", "e", " ", "p", "r",
    "o", "c", "e", "s", "s", "i", "n", "g", " ", "a", " ", "l", "o",
    "n", "g", " ", "r", "e", "s", "p", "o", "n", "s", "e", ".">>

T_CANNOT_CONNECT ==
  <<"CROSS", " ", "C", "a", "n", "n", "o", "t", " ", "c", "o", "n", "n",
    "e", "c", "t", " ", "t", "o", " ", "A", "I", " ", "s", "e", "r",
    "v", "i", "c", "e", ".", " ", "P", "l", "e", "a", "s", "e", " ",
    "e", "n", "s", "u", "r", "e", " ", "i", "t", "'", "s", " ", "r",
    "u", "n", "n", "i", "n", "g", ".">>

T_UNEXPECTED ==
  <<"CROSS", " ", "A", "n", " ", "u", "n", "e", "x", "p", "e", "c", "t",
    "e", "d", " ", "e", "r", "r", "o", "r", " ", "o", "c", "c", "u",
    "r", "r", "e", "d", ".", " ", "P", "l", "e", "a", "s", "e", " ",
    "t", "r", "y", " ", "a", "g", "a", "i", "n", ".">>

\* the replies of /status; the emoji CHECK and WARNING are written by name
T_STATUS_OK ==
  <<"CHECK", " ", "L", "M", " ", "S", "t", "u", "d", "i", "o", " ", "i",
    "s", " ", "r", "u", "n", "n", "i", "n", "g", " ", "a", "n", "d",
    " ", "r", "e", "s", "p", "o", "n", "d", "i", "n", "g", ".">>

T_STATUS_BAD ==
  <<"WARNING", " ", "L", "M", " ", "S", "t", "u", "d", "i", "o", " ", "i",
    "s", " ", "r", "u", "n", "n", "i", "n", "g", " ", "b", "u", "t",
    " ", "n", "o", "t", " ", "r", "e", "s", "p", "o", "n", "d", "i",
    "n", "g", " ", "c", "o", "r", "r", "e", "c", "t", "l", "y", ".">>

T_STATUS_ERROR ==
  <<"CROSS", " ", "E", "r", "r", "o", "r", " ", "c", "h", "e", "c", "k",
    "i", "n", "g", " ", "s", "t", "a", "t", "u", "s", ".", " ", "P",
    "l", "e", "a", "s", "e", " ", "t", "r", "y", " ", "a", "g", "a",
    "i", "n", ".">>

T_NOT_AUTHORIZED ==
  <<"CROSS", " ", "Y", "o", "u", " ", "a", "r", "e", " ", "n", "o", "t",
    " ", "a", "u", "t", "h", "o", "r", "i", "z", "e", "d", " ", "t",
    "o", " ", "u", "s", "e", " ", "t", "h", "i", "s", " ", "b", "o",
    "t", ".">>

T_TOO_MANY ==
  <<"HOURGLASS", " ", "T", "o", "o", " ", "m", "a", "n", "y", " ", "m", "e",
    "s", "s", "a", "g", "e", "s", ".", " ", "P", "l", "e", "a", "s",
    "e", " ", "w", "a", "i", "t", " ", "a", " ", "m", "o", "m", "e",
    "n", "t", ".">>

T_INVALID_MESSAGE ==
  <<"CROSS", " ", "I", "n", "v", "a", "l", "i", "d", " ", "m", "e", "s",
    "s", "a", "g", "e", ".">>

T_COMM_ERROR ==
  <<"CROSS", " ", "E", "r", "r", "o", "r", " ", "c", "o", "m", "m", "u",
    "n", "i", "c", "a", "t", "i", "n", "g", " ", "w", "i", "t", "h",
    " ", "A", "I", ".", " ", "P", "l", "e", "a", "s", "e", " ", "t",
    "r", "y", " ", "a", "g", "a", "i", "n", ".">>

SYSTEM_PROMPT ==
  <<"Y", "o", "u", " ", "a", "r", "e", " ", "a", " ", "h", "e", "l",
    "p", "f", "u", "l", " ", "A", "I", " ", "a", "s", "s", "i", "s",
    "t", "a", "n", "t", ".", " ", "P", "r", "o", "v", "i", "d", "e",
    " ", "c", "o", "n", "c", "i", "s", "e", " ", "a", "n", "d", " ",
    "a", "c", "c", "u", "r", "a", "t", "e", " ", "r", "e", "s", "p",
    "o", "n", "s", "e", "s", ".">>

T_TOO_LONG_HEAD ==
  <<"CROSS", " ", "M", "e", "s", "s", "a", "g", "e", " ", "t", "o", "o",
    " ", "l", "o", "n", "g", ".", " ", "M", "a", "x", "i", "m", "u",
    "m", " ", "l", "e", "n", "g", "t", "h", " ", "i", "s", " ">>

T_TOO_LONG_TAIL ==
  <<" ", "c", "h", "a", "r", "a", "c", "t", "e", "r", "s", ".">>

DigitChar(d) ==
  CASE d = 0 -> "0" [] d = 1 -> "1" [] d = 2 -> "2" [] d = 3 -> "3" [] d = 4 -> "4"
    [] d = 5 -> "5" [] d = 6 -> "6" [] d = 7 -> "7" [] d = 8 -> "8" [] d = 9 -> "9"

\* the decimal rendering of a non-negative integer inside an f-string
RECURSIVE IntToText(_)
IntToText(n) == IF n < 10 THEN <<DigitChar(n)>> ELSE IntToText(n \div 10) \o <<DigitChar(n % 10)>>

T_TOO_LONG(max_length) == T_TOO_LONG_HEAD \o IntToText(max_length) \o T_TOO_LONG_TAIL

\* ------------------------------------------------------ conversation memory
Entry(role, content) == [role |-> role, content |-> content]

\* history[-max_history:] if max_history > 0 else []
get_conversation_history(memory, user_id, max_history) ==
  IF max_history > 0 THEN LastN(DictGet(memory, user_id, <<>>), max_history) ELSE <<>>

Trim_KeepOldest(history, max_history) == Take(history, max_history)

\* current_history[-max_history:]
Trim(history, max_history) == LastN(history, max_history)

update_conversation_history_Overwrite(memory, user_id, user_message, ai_response, max_history) ==
  IF max_history <= 0 THEN memory
  ELSE DictPut(memory, user_id,
               Trim(<<Entry("user", user_message), Entry("assistant", ai_response)>>,
                    max_history))

update_conversation_history_SkipsEmpty(memory, user_id, user_message, ai_response, max_history) ==
  IF max_history <= 0 \/ DictGet(memory, user_id, <<"none">>) = <<>> THEN memory
  ELSE LET current_history ==
             DictGet(memory, user_id, <<>>)
               \o <<Entry("user", user_message), Entry("assistant", ai_response)>>
       IN DictPut(memory, user_id, Trim(current_history, max_history))

update_conversation_history_AssistantFirst(memory, user_id, user_message, ai_response, max_history) ==
  IF max_history <= 0 THEN memory
  ELSE LET current_history ==
             DictGet(memory, user_id, <<>>)
               \o <<Entry("assistant", ai_response), Entry("user", user_message)>>
       IN DictPut(memory, user_id, Trim(current_history, max_history))

\* update_conversation_history: append the pair to what is stored now, keep
\* the newest max_history entries
update_conversation_history(memory, user_id, user_message, ai_response, max_history) ==
  IF max_history <= 0 THEN memory
  ELSE LET current_history ==
             DictGet(memory, user_id, <<>>)
               \o <<Entry("user", user_message), Entry("assistant", ai_response)>>
       IN DictPut(memory, user_id, Trim(current_history, max_history))

clear_conversation_memory_All(memory, user_id) ==
  [k \in DOMAIN memory |-> <<>>]

clear_conversation_memory_CreatesKey(memory, user_id) ==
  DictPut(memory, user_id, <<>>)

\* clear_conversation_memory: the entry is emptied only when the key exists
clear_conversation_memory(memory, user_id) ==
  IF user_id \in DOMAIN memory THEN DictPut(memory, user_id, <<>>) ELSE memory

\* ------------------------------------------------------------ authorisation
Users == {1, 2, 3}

\* str(user_id)
ToStr(u) ==
  CASE u = 1 -> "1"
    [] u = 2 -> "2"
    [] u = 3 -> "3"

is_user_allowed_AllowAll(user_id, cfg) == TRUE

is_user_allowed(user_id, cfg) ==
  LET user_whitelist == DictGet(cfg, "user_whitelist", {})
  IN IF user_whitelist = {} THEN FALSE ELSE ToStr(user_id) \in user_whitelist

\* ------------------------------------------------- inference server outcomes
\* What one POST attempt ends with: a response that was received and read
\* (status; whether the body parses as JSON; the parsed data), or
\* asyncio.TimeoutError, or aiohttp.ClientError raised anywhere in the attempt.
Response(status, json_ok, data) ==
  [kind |-> "response", status |-> status, json_ok |-> json_ok, data |-> data]

TimeoutOutcome == [kind |-> "timeout", status |-> 0, json_ok |-> FALSE, data |-> EmptyDict]

ClientErrorOutcome ==
  [kind |-> "client_error", status |-> 0, json_ok |-> FALSE, data |-> EmptyDict]

ReplyBody(content) == [choices |-> << [message |-> [content |-> content]] >>]

R_OK == <<"o", "k">>

R_HEY == <<"h", "e", "y">>

MalformedBodies ==
  { EmptyDict,                                  \* {}
    [choices |-> <<>>],                         \* {"choices": []}
    [choices |-> << EmptyDict >>],              \* {"choices": [{}]}
    [choices |-> << [message |-> EmptyDict] >>],\* {"choices": [{"message": {}}]}
    ReplyBody(<<>>) }                           \* content ""

RetryableOutcomes == {TimeoutOutcome, ClientErrorOutcome, Response(503, TRUE, EmptyDict)}

TerminalStatusOutcomes == {Response(404, TRUE, EmptyDict), Response(201, TRUE, ReplyBody(R_OK))}

ValidOutcomes == {Response(200, TRUE, ReplyBody(R_OK)), Response(200, TRUE, ReplyBody(R_HEY))}

MalformedOutcomes ==
  {Response(200, TRUE, b) : b \in MalformedBodies} \cup {Response(200, FALSE, EmptyDict)}

AllOutcomes ==
  RetryableOutcomes \cup TerminalStatusOutcomes \cup ValidOutcomes \cup MalformedOutcomes

\* what an upstream error carries: the body of a non-200 response
\* (response.text()) or the text of the exception
ErrorBodies == {<<>>, <<"k", "e", "y">>, <<"p", "w", "d">>}

\* outcomes that differ only in the error body or error text they carry, and
\* one valid reply
LeakOutcomes ==
  {Response(status, TRUE, b) : status \in {404, 503}, b \in ErrorBodies}
    \cup {[TimeoutOutcome EXCEPT !.data = b] : b \in ErrorBodies}
    \cup {[ClientErrorOutcome EXCEPT !.data = b] : b \in ErrorBodies}
    \cup {Response(200, FALSE, b) : b \in ErrorBodies}
    \cup {Response(200, TRUE, [error |-> b]) : b \in ErrorBodies}
    \cup {Response(200, TRUE, ReplyBody(R_OK))}

\* a 200 response whose body decodes and holds a non-empty reply
HasReply(o) ==
  /\ o.json_ok
  /\ "choices" \in DOMAIN o.data
  /\ o.data["choices"] # <<>>
  /\ "message" \in DOMAIN o.data["choices"][1]
  /\ "content" \in DOMAIN o.data["choices"][1]["message"]
  /\ o.data["choices"][1]["message"]["content"] # <<>>

\* the kind of an outcome, in the words of the retry policy
OutcomeClass(o) ==
  IF o.kind # "response" \/ o.status >= 500 THEN "retryable"
  ELSE IF o.status # 200 THEN "terminal_status"
  ELSE IF HasReply(o) THEN "valid"
  ELSE "malformed"

\* ------------------------------------------------------------------ state
TaskIds == {1, 2}

VARIABLES
  config,               \* BotState.config
  conversation_memory,  \* BotState.conversation_memory : user -> list of entries
  user_rate_limits,     \* BotState.user_rate_limits : user -> list of timestamps
  rate_limit_locks,     \* BotState._rate_limit_locks : user -> holder (0 = unlocked)
  clock,                \* datetime.now()
  task,                 \* the running coroutines: position and locals
  env,                  \* what the outside world may send: users, texts, outcomes
  rl_log,               \* history: every finished check_rate_limit, per user
  last_exchange,        \* history: the pair of the latest commit, per user
  ncalls                \* history: number of entry-point calls started

vars == <<config, conversation_memory, user_rate_limits, rate_limit_locks,
          clock, task, env, rl_log, last_exchange, ncalls>>

NoResult == [success |-> FALSE, text |-> <<>>]

IdleTask ==
  [pc |-> "idle", entry |-> "none", user_id |-> 0,
   text |-> <<>>,          \* update.message.text
   now |-> 0, recent |-> <<>>, allowed |-> FALSE,
   message |-> <<>>,       \* the message argument of send_to_lm_studio
   max_length |-> 0,       \* the max_length argument of a direct call
   safe_message |-> <<>>, max_history |-> 0, max_retries |-> 0,
   request |-> <<>>,       \* the messages list of the JSON body
   attempt |-> 0,
   result |-> NoResult,
   replies |-> <<>>,       \* reply_text calls of this update, in order
   logged |-> <<>>,        \* log_message calls of this update, in order
   trace |-> <<>>,         \* history: the steps taken, in order
   posts |-> 0,            \* history: POSTs made by this call
   sleeps |-> <<>>,        \* history: asyncio.sleep delays of this call
   outcomes |-> <<>>,      \* history: the kind of outcome each attempt ended with
   last |-> TimeoutOutcome,\* history: the outcome of the latest attempt
   mem0 |-> EmptyDict,     \* history: conversation_memory when the call began
   prev_pair |-> <<>>,     \* history: last_exchange[user] when the call began
   call_id |-> 0,          \* history: the number of this send_to_lm_studio call
   overlap |-> {}]         \* history: the calls in flight when this one began

\* ------------------------------------------------------------ configuration
\* str.lower() of a text
LowerText(s) == [i \in 1..Len(s) |-> Lower(s[i])]

\* str.startswith
StartsWith(s, prefix) == Len(s) >= Len(prefix) /\ SubSeq(s, 1, Len(prefix)) = prefix

DEFAULT_LM_STUDIO_URL ==
  <<"h", "t", "t", "p", ":", "/", "/", "1", "2", "7", ".", "0", ".",
    "0", ".", "1", ":", "1", "2", "3", "4">>

\* http://127.0.0.1, http://localhost, https://127.0.0.1, https://localhost
allowed_patterns ==
  { <<"h", "t", "t", "p", ":", "/", "/", "1", "2", "7", ".", "0", ".",
     "0", ".", "1">>,
    <<"h", "t", "t", "p", ":", "/", "/", "l", "o", "c", "a", "l", "h",
     "o", "s", "t">>,
    <<"h", "t", "t", "p", "s", ":", "/", "/", "1", "2", "7", ".", "0",
     ".", "0", ".", "1">>,
    <<"h", "t", "t", "p", "s", ":", "/", "/", "l", "o", "c", "a", "l",
     "h", "o", "s", "t">> }

validate_lm_studio_url_AnyHttp(url) ==
  IF url = <<>> THEN FALSE
  ELSE StartsWith(Strip(LowerText(url)), <<"h", "t", "t", "p">>)

validate_lm_studio_url(url) ==
  IF url = <<>> THEN FALSE
  ELSE LET url_lower == Strip(LowerText(url))
       IN \E pattern \in allowed_patterns : StartsWith(url_lower, pattern)

\* the items of a comma-separated variable, already split and trimmed; an
\* unset or empty variable has none
parse_list_env(environ, key) == DictGet(environ, key, <<>>)

ConfigurationError == [ok |-> FALSE, config |-> EmptyDict]

\* load_config: the configuration, or ConfigurationError
load_config(environ) ==
  LET telegram_bot_token == DictGet(environ, "TELEGRAM_BOT_TOKEN", <<>>)
      user_whitelist == parse_list_env(environ, "USER_WHITELIST")
      lm_studio_url == DictGet(environ, "LM_STUDIO_URL", DEFAULT_LM_STUDIO_URL)
  IN IF telegram_bot_token = <<>> THEN ConfigurationError
     ELSE IF user_whitelist = <<>> THEN ConfigurationError
     ELSE IF ~validate_lm_studio_url(lm_studio_url) THEN ConfigurationError
     ELSE [ok |-> TRUE,
           config |-> [telegram_bot_token |-> telegram_bot_token,
                       user_whitelist |-> {user_whitelist[i] : i \in 1..Len(user_whitelist)},
                       lm_studio_url |-> lm_studio_url,
                       max_conversation_history |-> DEFAULT_MAX_CONVERSATION_HISTORY,
                       max_message_length |-> DEFAULT_MAX_MESSAGE_LENGTH]]

\* ------------------------------------------------------------ rate limiter
\* asyncio.Lock: free when no coroutine holds it
LockIsFree_NoLock(locks, u) == TRUE

LockIsFree_Global(locks, u) == \A k \in DOMAIN locks : locks[k] = 0

LockIsFree(locks, u) == DictGet(locks, u, 0) = 0

WindowStart(now) == now - RATE_LIMIT_WINDOW

RecentTimestamps_NoPrune(timestamps, now) == timestamps

RecentTimestamps(timestamps, now) ==
  SelectSeq(timestamps, LAMBDA ts : ts > WindowStart(now))

UnderLimit_OffByOne(recent) == Len(recent) <= RATE_LIMIT_MAX_MESSAGES

UnderLimit(recent) == ~(Len(recent) >= RATE_LIMIT_MAX_MESSAGES)

LedgerAfter_RecordRejected(limits, u, recent, now) ==
  DictPut(limits, u, Append(recent, now))

\* user_rate_limits when check_rate_limit returns: the recent timestamps and
\* now are stored when the call is admitted, nothing is when it is refused
LedgerAfter(limits, u, recent, now) ==
  IF UnderLimit(recent) THEN DictPut(limits, u, Append(recent, now)) ELSE limits

\* lock = BotState.get_rate_limit_lock(user_id); async with lock: (entered)
RL_Acquire(t) ==
  LET u == task[t].user_id IN
  /\ task[t].pc = "rl_lock"
  /\ LockIsFree(rate_limit_locks, u)
  /\ rate_limit_locks' = DictPut(rate_limit_locks, u, t)
  /\ task' = [task EXCEPT ![t].pc = "rl_read"]
  /\ UNCHANGED <<config, conversation_memory, user_rate_limits, clock, env, rl_log,
                 last_exchange, ncalls>>

\* now, window_start, user_timestamps, recent_timestamps
RL_Read(t) ==
  LET u == task[t].user_id IN
  /\ task[t].pc = "rl_read"
  /\ task' = [task EXCEPT ![t].pc = "rl_decide",
                          ![t].now = clock,
                          ![t].recent = RecentTimestamps(DictGet(user_rate_limits, u, <<>>), clock)]
  /\ UNCHANGED <<config, conversation_memory, user_rate_limits, rate_limit_locks,
                 clock, env, rl_log, last_exchange, ncalls>>

\* the limit test, the append and store, the return; leaving the with block
\* releases the lock
RL_Decide(t) ==
  LET u == task[t].user_id
      ok == UnderLimit(task[t].recent)
  IN
  /\ task[t].pc = "rl_decide"
  /\ user_rate_limits' = LedgerAfter(user_rate_limits, u, task[t].recent, task[t].now)
  /\ rate_limit_locks' = DictPut(rate_limit_locks, u, 0)
  /\ rl_log' = [rl_log EXCEPT ![u] = Append(@, [t |-> task[t].now, ok |-> ok])]
  /\ task' = [task EXCEPT ![t].pc = "rl_done", ![t].allowed = ok,
                          ![t].now = 0, ![t].recent = <<>>]
  /\ UNCHANGED <<config, conversation_memory, clock, env, last_exchange, ncalls>>

\* a coroutine calls check_rate_limit(user_id)
RL_Call(t, u) ==
  /\ task[t].pc \in {"idle", "rl_done"}
  /\ ncalls < env.max_calls
  /\ ncalls' = ncalls + 1
  /\ task' = [task EXCEPT ![t] = [IdleTask EXCEPT !.pc = "rl_lock",
                                                  !.entry = "check_rate_limit",
                                                  !.user_id = u]]
  /\ UNCHANGED <<config, conversation_memory, user_rate_limits, rate_limit_locks,
                 clock, env, rl_log, last_exchange>>

\* time passes
Tick ==
  /\ clock + TickStep <= MaxTicks * TickStep
  /\ clock' = clock + TickStep
  /\ UNCHANGED <<config, conversation_memory, user_rate_limits, rate_limit_locks,
                 task, env, rl_log, last_exchange, ncalls>>

\* --------------------------------------------------------- inference client
\* the body of "if response.status == 200": what is returned, and whether the
\* exchange is committed to memory
ParseReply(o) ==
  IF ~o.json_ok THEN [success |-> FALSE, text |-> T_UNEXPECTED]
  ELSE IF "choices" \notin DOMAIN o.data \/ o.data["choices"] = <<>>
  THEN [success |-> FALSE, text |-> T_INVALID_RESPONSE]
  ELSE LET message == DictGet(o.data["choices"][1], "message", EmptyDict)
           ai_response == DictGet(message, "content", <<>>)
       IN IF ai_response = <<>> THEN [success |-> FALSE, text |-> T_EMPTY_RESPONSE]
          ELSE [success |-> TRUE, text |-> ai_response]

ShouldRetry_Always(attempt, max_retries) == TRUE

\* attempt < max_retries
ShouldRetry(attempt, max_retries) == attempt < max_retries

IsServerError_Any(status) == status # 200

\* response.status >= 500
IsServerError(status) == status >= 500

Retry == [next |-> "sleep", success |-> FALSE, text |-> <<>>]

Return(r) == [next |-> "return", success |-> r.success, text |-> r.text]

Fail(text) == [next |-> "return", success |-> FALSE, text |-> text]

AttemptStep_RetryMalformed(o, attempt, max_retries) ==
  IF o.kind = "response" /\ o.status = 200 /\ ParseReply(o).success
    THEN Return(ParseReply(o))
  ELSE IF ShouldRetry(attempt, max_retries) THEN Retry
  ELSE Fail(T_CANNOT_CONNECT)

AttemptStep_EchoBody(o, attempt, max_retries) ==
  IF o.kind = "response" THEN
    IF o.status = 200 THEN Return(ParseReply(o))
    ELSE IF IsServerError(o.status) /\ ShouldRetry(attempt, max_retries) THEN Retry
    ELSE Fail(T_SERVICE_ERROR \o o.data)
  ELSE IF o.kind = "timeout" THEN
    IF ShouldRetry(attempt, max_retries) THEN Retry ELSE Fail(T_TIMED_OUT)
  ELSE
    IF ShouldRetry(attempt, max_retries) THEN Retry ELSE Fail(T_CANNOT_CONNECT \o o.data)

\* one iteration of "for attempt in range(max_retries + 1)" once the attempt
\* has ended with outcome o
AttemptStep(o, attempt, max_retries) ==
  IF o.kind = "response" THEN
    IF o.status = 200 THEN Return(ParseReply(o))
    ELSE IF IsServerError(o.status) /\ ShouldRetry(attempt, max_retries) THEN Retry
    ELSE Fail(T_SERVICE_ERROR)
  ELSE IF o.kind = "timeout" THEN
    IF ShouldRetry(attempt, max_retries) THEN Retry ELSE Fail(T_TIMED_OUT)
  ELSE
    IF ShouldRetry(attempt, max_retries) THEN Retry ELSE Fail(T_CANNOT_CONNECT)

Commit_AnyReturn(step) == step.next = "return"

\* update_conversation_history is called only on the path that returns
\* (True, ai_response)
Commit(step) == step.next = "return" /\ step.success

\* 1 * (attempt + 1)
Backoff_Constant(attempt) == 1

Backoff(attempt) == 1 * (attempt + 1)

TooLong_Never(message, max_length) == FALSE

\* len(message) > max_length
TooLong(message, max_length) == Len(message) > max_length

BuildRequest_NoHistory(history, safe_message) ==
  <<Entry("system", SYSTEM_PROMPT), Entry("user", safe_message)>>

\* messages = [system]; messages.extend(history); messages.append(current)
BuildRequest(history, safe_message) ==
  <<Entry("system", SYSTEM_PROMPT)>> \o history \o <<Entry("user", safe_message)>>

\* the send_to_lm_studio calls of other coroutines that have built their
\* request and have not returned
InFlight(t) ==
  {task[t2].call_id : t2 \in {x \in DOMAIN task \ {t} :
                                 /\ task[x].entry = "send_to_lm_studio"
                                 /\ task[x].pc \in {"lm_post", "lm_wait", "lm_sleep"}}}

\* send_to_lm_studio up to the first POST: the length check, sanitising,
\* reading the history, assembling the request, entering the loop
LM_Begin(t) ==
  LET max_length == DictGet(config, "max_message_length", DEFAULT_MAX_MESSAGE_LENGTH)
      u == task[t].user_id
      safe == sanitize_for_lm_studio(task[t].message)
      max_history ==
        DictGet(config, "max_conversation_history", DEFAULT_MAX_CONVERSATION_HISTORY)
      history == get_conversation_history(conversation_memory, u, max_history)
      began == [task[t] EXCEPT !.mem0 = conversation_memory,
                               !.prev_pair = last_exchange[u],
                               !.overlap = InFlight(t)]
  IN
  /\ task[t].pc = "lm_begin"
  /\ task' =
       IF TooLong(task[t].message, max_length)
       THEN [task EXCEPT ![t] = [began EXCEPT !.pc = "lm_returned",
                                              !.result = [success |-> FALSE,
                                                          text |-> T_TOO_LONG(max_length)]]]
       ELSE IF task[t].max_retries + 1 <= 0
       THEN [task EXCEPT ![t] = [began EXCEPT !.pc = "lm_returned",
                                              !.safe_message = safe,
                                              !.max_history = max_history,
                                              !.request = BuildRequest(history, safe),
                                              !.result = [success |-> FALSE,
                                                          text |-> T_CANNOT_CONNECT]]]
       ELSE [task EXCEPT ![t] = [began EXCEPT !.pc = "lm_post",
                                              !.safe_message = safe,
                                              !.max_history = max_history,
                                              !.request = BuildRequest(history, safe),
                                              !.attempt = 0]]
  /\ UNCHANGED <<config, conversation_memory, user_rate_limits, rate_limit_locks,
                 clock, env, rl_log, last_exchange, ncalls>>

\* session.post(...) is issued; the coroutine waits for the response
LM_Post(t) ==
  /\ task[t].pc = "lm_post"
  /\ task' = [task EXCEPT ![t].pc = "lm_wait",
                          ![t].posts = @ + 1,
                          ![t].trace = Append(@, "post")]
  /\ UNCHANGED <<config, conversation_memory, user_rate_limits, rate_limit_locks,
                 clock, env, rl_log, last_exchange, ncalls>>

\* the attempt ends with outcome o: return, or start the backoff sleep
LM_Response(t, o) ==
  LET u == task[t].user_id
      step == AttemptStep(o, task[t].attempt, task[t].max_retries)
      commit == Commit(step)
  IN
  /\ task[t].pc = "lm_wait"
  /\ conversation_memory' =
       IF commit
       THEN update_conversation_history(conversation_memory, u, task[t].safe_message,
                                        step.text, task[t].max_history)
       ELSE conversation_memory
  /\ last_exchange' =
       IF commit /\ task[t].max_history > 0
       THEN [last_exchange EXCEPT ![u] = <<Entry("user", task[t].safe_message),
                                           Entry("assistant", step.text)>>]
       ELSE last_exchange
  /\ task' =
       IF step.next = "sleep"
       THEN [task EXCEPT ![t].pc = "lm_sleep",
                         ![t].outcomes = Append(@, OutcomeClass(o)),
                         ![t].last = o,
                         ![t].sleeps = Append(@, Backoff(task[t].attempt)),
                         ![t].trace = Append(@, "sleep")]
       ELSE [task EXCEPT ![t].pc = "lm_returned",
                         ![t].outcomes = Append(@, OutcomeClass(o)),
                         ![t].last = o,
                         ![t].result = [success |-> step.success, text |-> step.text]]
  /\ UNCHANGED <<config, user_rate_limits, rate_limit_locks, clock, env, rl_log, ncalls>>

\* the backoff sleep is over: continue with the next attempt
LM_Wake(t) ==
  /\ task[t].pc = "lm_sleep"
  /\ task' = [task EXCEPT ![t].pc = "lm_post", ![t].attempt = @ + 1]
  /\ UNCHANGED <<config, conversation_memory, user_rate_limits, rate_limit_locks,
                 clock, env, rl_log, last_exchange, ncalls>>

\* a coroutine calls send_to_lm_studio(session, message, user_id, config, max_retries)
LM_Call(t, u, message, max_retries) ==
  /\ task[t].pc \in {"idle", "lm_returned"}
  /\ ncalls < env.max_calls
  /\ ncalls' = ncalls + 1
  /\ task' = [task EXCEPT ![t] = [IdleTask EXCEPT !.pc = "lm_begin",
                                                  !.entry = "send_to_lm_studio",
                                                  !.user_id = u,
                                                  !.message = message,
                                                  !.max_retries = max_retries,
                                                  !.call_id = ncalls + 1]]
  /\ UNCHANGED <<config, conversation_memory, user_rate_limits, rate_limit_locks,
                 clock, env, rl_log, last_exchange>>

\* clear_conversation_memory(user_id), as /new and /reset call it
Clear(u) ==
  /\ conversation_memory' = clear_conversation_memory(conversation_memory, u)
  /\ last_exchange' = [last_exchange EXCEPT ![u] = <<>>]
  /\ conversation_memory' # conversation_memory \/ last_exchange' # last_exchange
  /\ UNCHANGED <<config, user_rate_limits, rate_limit_locks, clock, task, env,
                 rl_log, ncalls>>

\* ------------------------------------------------------------------ main
\* main: load_config and, when it returns, BotState.set_config
Main_Load(t) ==
  LET loaded == load_config(env.environ) IN
  /\ task[t].pc = "idle"
  /\ config' = IF loaded.ok THEN loaded.config ELSE config
  /\ task' =
       IF loaded.ok
       THEN [task EXCEPT ![t] = [IdleTask EXCEPT !.entry = "main", !.pc = "main_dirs",
                                                 !.trace = <<"load_config", "set_config">>]]
       ELSE [task EXCEPT ![t] = [IdleTask EXCEPT !.entry = "main", !.pc = "main_exit",
                                                 !.trace = <<"load_config",
                                                             "configuration_error">>]]
  /\ UNCHANGED <<conversation_memory, user_rate_limits, rate_limit_locks, clock, env,
                 rl_log, last_exchange, ncalls>>

\* setup_directories; made: whether os.makedirs succeeds
Main_Dirs(t, made) ==
  /\ task[t].pc = "main_dirs"
  /\ task' = IF made
             THEN [task EXCEPT ![t].pc = "main_build",
                               ![t].trace = Append(@, "setup_directories")]
             ELSE [task EXCEPT ![t].pc = "main_exit", ![t].trace = Append(@, "error")]
  /\ UNCHANGED <<config, conversation_memory, user_rate_limits, rate_limit_locks,
                 clock, env, rl_log, last_exchange, ncalls>>

\* the application is built and the handlers are registered; built: whether
\* the builder succeeds
Main_Build(t, built) ==
  /\ task[t].pc = "main_build"
  /\ task' = IF built
             THEN [task EXCEPT ![t].pc = "main_poll",
                               ![t].trace = Append(@, "build_application")]
             ELSE [task EXCEPT ![t].pc = "main_exit", ![t].trace = Append(@, "error")]
  /\ UNCHANGED <<config, conversation_memory, user_rate_limits, rate_limit_locks,
                 clock, env, rl_log, last_exchange, ncalls>>

\* application.run_polling
Main_Poll(t) ==
  /\ task[t].pc = "main_poll"
  /\ task' = [task EXCEPT ![t].pc = "polling", ![t].trace = Append(@, "run_polling")]
  /\ UNCHANGED <<config, conversation_memory, user_rate_limits, rate_limit_locks,
                 clock, env, rl_log, last_exchange, ncalls>>

\* ------------------------------------------------------------------ /status
\* an exception that is neither aiohttp.ClientError nor asyncio.TimeoutError
OtherErrorOutcome ==
  [kind |-> "other_error", status |-> 0, json_ok |-> FALSE, data |-> EmptyDict]

\* what the GET to /v1/models can end with
ProbeOutcomes ==
  {Response(status, TRUE, EmptyDict) : status \in {200, 201, 404, 500, 503}}
    \cup {TimeoutOutcome, ClientErrorOutcome, OtherErrorOutcome}

\* check_lm_studio_status: "true", "false", or "raise" when the exception is
\* not one it catches
check_lm_studio_status(o) ==
  IF o.kind = "response" THEN (IF o.status = 200 THEN "true" ELSE "false")
  ELSE IF o.kind \in {"client_error", "timeout"} THEN "false"
  ELSE "raise"

\* the reply status_command sends for what the probe returned
StatusReply(probe) ==
  IF probe = "true" THEN T_STATUS_OK
  ELSE IF probe = "false" THEN T_STATUS_BAD
  ELSE T_STATUS_ERROR

\* status_command up to the GET; session_ok: whether aiohttp.ClientSession()
\* could be built
ST_Begin(t, u, session_ok) ==
  LET fresh == [IdleTask EXCEPT !.entry = "status_command", !.user_id = u] IN
  /\ task[t].pc \in {"idle", "st_done"}
  /\ ncalls < env.max_calls
  /\ ncalls' = ncalls + 1
  /\ task' =
       IF session_ok
       THEN [task EXCEPT ![t] = [fresh EXCEPT !.pc = "st_wait", !.trace = <<"get">>]]
       ELSE [task EXCEPT ![t] = [fresh EXCEPT !.pc = "st_done",
                                              !.replies = <<T_STATUS_ERROR>>,
                                              !.trace = <<"reply">>]]
  /\ UNCHANGED <<config, conversation_memory, user_rate_limits, rate_limit_locks,
                 clock, env, rl_log, last_exchange>>

\* the GET ends with outcome o; the reply is sent
ST_Response(t, o) ==
  /\ task[t].pc = "st_wait"
  /\ task' = [task EXCEPT ![t].pc = "st_done",
                          ![t].last = o,
                          ![t].replies = <<StatusReply(check_lm_studio_status(o))>>,
                          ![t].trace = Append(@, "reply")]
  /\ UNCHANGED <<config, conversation_memory, user_rate_limits, rate_limit_locks,
                 clock, env, rl_log, last_exchange, ncalls>>

\* ----------------------------------------------------------- message handler
StartsWithSlash(text) == text # <<>> /\ Head(text) = "/"

LogRecord(role, message, ok) ==
  [role |-> role, text |-> sanitize_for_log(message), ok |-> ok]

log_message_Raises(user_id, role, message, write_ok) ==
  [returned |-> write_ok, raised |-> ~write_ok,
   record |-> LogRecord(role, message, write_ok)]

\* log_message: the whole body is inside try / except Exception, so a failed
\* write makes it return False; write_ok: whether makedirs, open and write
\* succeed
log_message(user_id, role, message, write_ok) ==
  [returned |-> write_ok, raised |-> FALSE,
   record |-> LogRecord(role, message, write_ok)]

\* the reply of error_handler, which the dispatcher calls when a handler
\* raises
T_HANDLER_ERROR ==
  <<"WARNING", " ", "A", "n", " ", "u", "n", "e", "x", "p", "e", "c", "t",
    "e", "d", " ", "e", "r", "r", "o", "r", " ", "o", "c", "c", "u",
    "r", "r", "e", "d", ".", " ", "P", "l", "e", "a", "s", "e", " ",
    "t", "r", "y", " ", "a", "g", "a", "i", "n", " ", "l", "a", "t",
    "e", "r", ".">>

RECURSIVE Repeat(_, _)
Repeat(x, n) == IF n <= 0 THEN <<>> ELSE <<x>> \o Repeat(x, n - 1)

\* handle_message up to "await check_rate_limit(user_id)"
HM_Begin(t, u, text) ==
  LET fresh == [IdleTask EXCEPT !.entry = "handle_message", !.user_id = u, !.text = text]
  IN
  /\ task[t].pc \in {"idle", "hm_done", "cmd_done"}
  /\ ncalls < env.max_calls
  /\ ncalls' = ncalls + 1
  /\ task' =
       IF StartsWithSlash(text)
       THEN [task EXCEPT ![t] = [fresh EXCEPT !.pc = "hm_done"]]
       ELSE IF ~is_user_allowed(u, config)
       THEN [task EXCEPT ![t] = [fresh EXCEPT !.pc = "hm_done",
                                              !.replies = <<T_NOT_AUTHORIZED>>,
                                              !.trace = <<"reply">>]]
       ELSE [task EXCEPT ![t] = [fresh EXCEPT !.pc = "rl_lock"]]
  /\ UNCHANGED <<config, conversation_memory, user_rate_limits, rate_limit_locks,
                 clock, env, rl_log, last_exchange>>

\* from the result of check_rate_limit to the call of send_to_lm_studio;
\* log_ok: whether the chatlog write succeeds
HM_AfterRateLimit(t, log_ok) ==
  LET sanitized_message ==
        sanitize_input(task[t].text,
                       DictGet(config, "max_message_length", DEFAULT_MAX_MESSAGE_LENGTH))
      log == log_message(task[t].user_id, "user", sanitized_message, log_ok)
  IN
  /\ task[t].entry = "handle_message"
  /\ task[t].pc = "rl_done"
  /\ task' =
       IF ~task[t].allowed
       THEN [task EXCEPT ![t].pc = "hm_done",
                         ![t].replies = <<T_TOO_MANY>>,
                         ![t].trace = <<"reply">>]
       ELSE IF sanitized_message = <<>>
       THEN [task EXCEPT ![t].pc = "hm_done",
                         ![t].replies = <<T_INVALID_MESSAGE>>,
                         ![t].trace = <<"reply">>]
       ELSE IF log.raised
       THEN [task EXCEPT ![t].pc = "hm_done",
                         ![t].replies = <<T_HANDLER_ERROR>>,
                         ![t].trace = <<"log_user", "raise", "reply">>]
       ELSE [task EXCEPT ![t].pc = "lm_begin",
                         ![t].logged = <<log.record>>,
                         ![t].trace = <<"log_user", "typing">>,
                         ![t].message = sanitized_message,
                         ![t].max_retries = DEFAULT_MAX_RETRIES]
  /\ UNCHANGED <<config, conversation_memory, user_rate_limits, rate_limit_locks,
                 clock, env, rl_log, last_exchange, ncalls>>

HM_Finish_SilentOnFailure(t, log_ok) ==
  LET ai_response == task[t].result.text
      chunks == chunk_message(ai_response, TELEGRAM_MAX_MESSAGE_LENGTH)
      log == log_message(task[t].user_id, "assistant", ai_response, log_ok)
  IN
  /\ task[t].entry = "handle_message"
  /\ task[t].pc = "lm_returned"
  /\ task' =
       IF ~task[t].result.success
       THEN [task EXCEPT ![t].pc = "hm_done",
                         ![t].replies = <<T_COMM_ERROR>>,
                         ![t].trace = Append(@, "reply")]
       ELSE [task EXCEPT ![t].pc = "hm_done",
                         ![t].logged = Append(@, log.record),
                         ![t].replies = chunks,
                         ![t].trace = @ \o <<"log_assistant">> \o Repeat("reply", Len(chunks))]
  /\ UNCHANGED <<config, conversation_memory, user_rate_limits, rate_limit_locks,
                 clock, env, rl_log, last_exchange, ncalls>>

\* from the return of send_to_lm_studio to the end: log the response, chunk
\* it, send the chunks
HM_Finish(t, log_ok) ==
  LET ai_response == task[t].result.text
      chunks == chunk_message(ai_response, TELEGRAM_MAX_MESSAGE_LENGTH)
      log == log_message(task[t].user_id, "assistant", ai_response, log_ok)
  IN
  /\ task[t].entry = "handle_message"
  /\ task[t].pc = "lm_returned"
  /\ task' =
       IF log.raised
       THEN [task EXCEPT ![t].pc = "hm_done",
                         ![t].replies = <<T_HANDLER_ERROR>>,
                         ![t].trace = @ \o <<"log_assistant", "raise", "reply">>]
       ELSE [task EXCEPT ![t].pc = "hm_done",
                         ![t].logged = Append(@, log.record),
                         ![t].replies = chunks,
                         ![t].trace = @ \o <<"log_assistant">> \o Repeat("reply", Len(chunks))]
  /\ UNCHANGED <<config, conversation_memory, user_rate_limits, rate_limit_locks,
                 clock, env, rl_log, last_exchange, ncalls>>

\* -------------------------------------------------------- /new and /reset
T_SESSION_MARK ==
  <<"-", "-", "-", " ", "N", "E", "W", " ", "S", "E", "S", "S", "I",
    "O", "N", " ", "S", "T", "A", "R", "T", "E", "D", " ", "-", "-",
    "-">>

T_NEW_SESSION ==
  <<"CHECK", " ", "S", "t", "a", "r", "t", "i", "n", "g", " ", "a", " ",
    "n", "e", "w", " ", "c", "o", "n", "v", "e", "r", "s", "a", "t",
    "i", "o", "n", ".", " ", "P", "r", "e", "v", "i", "o", "u", "s",
    " ", "c", "o", "n", "t", "e", "x", "t", " ", "h", "a", "s", " ",
    "b", "e", "e", "n", " ", "s", "a", "v", "e", "d", ".">>

T_CONTEXT_RESET ==
  <<"CHECK", " ", "C", "o", "n", "v", "e", "r", "s", "a", "t", "i", "o",
    "n", " ", "c", "o", "n", "t", "e", "x", "t", " ", "h", "a", "s",
    " ", "b", "e", "e", "n", " ", "r", "e", "s", "e", "t", ".">>

\* new_command: log the session boundary, clear the sender's history, reply;
\* log_ok: whether the chatlog write succeeds
new_command(t, u, log_ok) ==
  LET fresh == [IdleTask EXCEPT !.entry = "new_command", !.user_id = u]
      log == log_message(u, "system", T_SESSION_MARK, log_ok)
  IN
  /\ task[t].pc \in {"idle", "hm_done", "cmd_done"}
  /\ ncalls < env.max_calls
  /\ ncalls' = ncalls + 1
  /\ conversation_memory' = clear_conversation_memory(conversation_memory, u)
  /\ last_exchange' = [last_exchange EXCEPT ![u] = <<>>]
  /\ task' = [task EXCEPT ![t] = [fresh EXCEPT !.pc = "cmd_done",
                                               !.logged = <<log.record>>,
                                               !.replies = <<T_NEW_SESSION>>,
                                               !.trace = <<"log_system", "clear", "reply">>]]
  /\ UNCHANGED <<config, user_rate_limits, rate_limit_locks, clock, env, rl_log>>

\* reset_command: clear the sender's history, reply
reset_command(t, u) ==
  LET fresh == [IdleTask EXCEPT !.entry = "reset_command", !.user_id = u] IN
  /\ task[t].pc \in {"idle", "hm_done", "cmd_done"}
  /\ ncalls < env.max_calls
  /\ ncalls' = ncalls + 1
  /\ conversation_memory' = clear_conversation_memory(conversation_memory, u)
  /\ last_exchange' = [last_exchange EXCEPT ![u] = <<>>]
  /\ task' = [task EXCEPT ![t] = [fresh EXCEPT !.pc = "cmd_done",
                                               !.replies = <<T_CONTEXT_RESET>>,
                                               !.trace = <<"clear", "reply">>]]
  /\ UNCHANGED <<config, user_rate_limits, rate_limit_locks, clock, env, rl_log>>

\* a direct call of update_conversation_history
MemUpdate(u, user_message, ai_response) ==
  LET max_history == config.max_conversation_history IN
  /\ ncalls < env.max_calls
  /\ ncalls' = ncalls + 1
  /\ conversation_memory' =
       update_conversation_history(conversation_memory, u, user_message, ai_response,
                                   max_history)
  /\ last_exchange' =
       IF max_history > 0
       THEN [last_exchange EXCEPT ![u] = <<Entry("user", user_message),
                                           Entry("assistant", ai_response)>>]
       ELSE last_exchange
  /\ UNCHANGED <<config, user_rate_limits, rate_limit_locks, clock, task, env, rl_log>>

\* ----------------------------------------------------------------- inputs
TXT_HI == <<"h", "i">>

TXT_YO == <<"y", "o">>

TXT_SLASH == <<"/", "x">>

TXT_BLANK == <<" ", "BEL">>

TXT_ROLE == <<"U", "s", "e", "r", " ", ":", "y", "o">>

TXT_SYSTEM == <<"/", "s", "y", "s", "t", "e", "m", ":", "y", "o">>

TXT_LONG == <<"a", "b", "c", "d", "e", "f", "g", "h", "i", "j", "k", "l">>

BaseConfig(max_history) ==
  [user_whitelist |-> {"1", "2"},
   max_conversation_history |-> max_history,
   max_message_length |-> 10]

InitState(cfg, tasks, e) ==
  /\ config = cfg
  /\ conversation_memory = EmptyDict
  /\ user_rate_limits = EmptyDict
  /\ rate_limit_locks = EmptyDict
  /\ clock = 0
  /\ task = [t \in tasks |-> IdleTask]
  /\ env = e
  /\ rl_log = [u \in Users |-> <<>>]
  /\ last_exchange = [u \in Users |-> <<>>]
  /\ ncalls = 0

\* ---- the bot: updates are dispatched one at a time to handle_message; all
\* of them arrive within one tick of the clock
Init ==
  \E n \in {0, 2, 3} :
    InitState(BaseConfig(n), {1},
              [users |-> Users,
               texts |-> {TXT_HI, TXT_SLASH, TXT_BLANK, TXT_ROLE, TXT_LONG},
               outcomes |-> AllOutcomes,
               max_calls |-> MaxUpdates])

Next ==
  \/ \E t \in DOMAIN task, u \in env.users, text \in env.texts : HM_Begin(t, u, text)
  \/ \E t \in DOMAIN task : RL_Acquire(t)
  \/ \E t \in DOMAIN task : RL_Read(t)
  \/ \E t \in DOMAIN task : RL_Decide(t)
  \/ \E t \in DOMAIN task, ok \in BOOLEAN : HM_AfterRateLimit(t, ok)
  \/ \E t \in DOMAIN task : LM_Begin(t)
  \/ \E t \in DOMAIN task : LM_Post(t)
  \/ \E t \in DOMAIN task, o \in env.outcomes : LM_Response(t, o)
  \/ \E t \in DOMAIN task : LM_Wake(t)
  \/ \E t \in DOMAIN task, ok \in BOOLEAN : HM_Finish(t, ok)

Spec == Init /\ [][Next]_vars

\* ---- the bot with its /new and /reset commands: three users, the third not
\* on the whitelist, send messages and commands one update at a time
InitCmd ==
  \E n \in {0, 1, 2} :
    InitState(BaseConfig(n), {1},
              [users |-> Users,
               texts |-> {TXT_HI},
               outcomes |-> {Response(200, TRUE, ReplyBody(R_OK)),
                             Response(404, TRUE, EmptyDict),
                             Response(503, TRUE, EmptyDict)},
               max_calls |-> MaxCmdUpdates])

NextCmd ==
  \/ Next
  \/ \E t \in DOMAIN task, u \in env.users, ok \in BOOLEAN : new_command(t, u, ok)
  \/ \E t \in DOMAIN task, u \in env.users : reset_command(t, u)

SpecCmd == InitCmd /\ [][NextCmd]_vars

\* ---- one user sending many messages while time passes: the rate limit is
\* reached and the window elapses
InitThrottle ==
  InitState(BaseConfig(0), {1},
            [users |-> {1},
             texts |-> {TXT_HI},
             outcomes |-> {Response(200, TRUE, ReplyBody(R_OK)), Response(503, TRUE, EmptyDict)},
             max_calls |-> MaxCalls])

NextThrottle == Next \/ Tick

SpecThrottle == InitThrottle /\ [][NextThrottle]_vars

\* ---- concurrent check_rate_limit calls by two coroutines
InitRL ==
  InitState(BaseConfig(0), TaskIds,
            [users |-> {1}, texts |-> {}, outcomes |-> {}, max_calls |-> MaxCalls])

NextRL ==
  \/ \E t \in DOMAIN task, u \in env.users : RL_Call(t, u)
  \/ \E t \in DOMAIN task : RL_Acquire(t)
  \/ \E t \in DOMAIN task : RL_Read(t)
  \/ \E t \in DOMAIN task : RL_Decide(t)
  \/ Tick

SpecRL == InitRL /\ [][NextRL]_vars

\* ---- concurrent check_rate_limit calls by two coroutines for two users,
\* each of whom may already have been admitted nine times at time 0
NineAdmitted == [i \in 1..(RATE_LIMIT_MAX_MESSAGES - 1) |-> 0]

InitRL2 ==
  \E busy \in SUBSET {1, 2} :
    /\ config = BaseConfig(0)
    /\ conversation_memory = EmptyDict
    /\ user_rate_limits = [u \in busy |-> NineAdmitted]
    /\ rate_limit_locks = [u \in busy |-> 0]
    /\ clock = 0
    /\ task = [t \in TaskIds |-> IdleTask]
    /\ env = [users |-> {1, 2}, texts |-> {}, outcomes |-> {}, max_calls |-> MaxCalls2]
    /\ rl_log = [u \in Users |->
                  IF u \in busy
                  THEN [i \in 1..(RATE_LIMIT_MAX_MESSAGES - 1) |-> [t |-> 0, ok |-> TRUE]]
                  ELSE <<>>]
    /\ last_exchange = [u \in Users |-> <<>>]
    /\ ncalls = 0

SpecRL2 == InitRL2 /\ [][NextRL]_vars

\* ---- send_to_lm_studio called directly, one call after another, with clears
\* in between
InitLM ==
  \E n \in 0..MaxHistory :
    InitState(BaseConfig(n), {1},
              [users |-> {1},
               texts |-> {TXT_HI, TXT_SYSTEM, TXT_LONG},
               outcomes |-> AllOutcomes,
               max_calls |-> MaxLMCalls])

NextLM ==
  \/ \E t \in DOMAIN task, u \in env.users, m \in env.texts, b \in 0..MaxBudget :
       LM_Call(t, u, m, b)
  \/ \E t \in DOMAIN task : LM_Begin(t)
  \/ \E t \in DOMAIN task : LM_Post(t)
  \/ \E t \in DOMAIN task, o \in env.outcomes : LM_Response(t, o)
  \/ \E t \in DOMAIN task : LM_Wake(t)
  \/ \E u \in env.users : Clear(u)

SpecLM == InitLM /\ [][NextLM]_vars

\* the event loop runs a coroutine that can run; every POST ends (with a
\* response, or with the timeout of DEFAULT_TIMEOUT seconds, or with a
\* connection error); every sleep ends
LMProgress ==
  \E t \in DOMAIN task :
    \/ LM_Begin(t)
    \/ LM_Post(t)
    \/ \E o \in env.outcomes : LM_Response(t, o)
    \/ LM_Wake(t)

FairSpecLM == SpecLM /\ WF_vars(LMProgress)

\* ---- send_to_lm_studio called directly while the endpoint fails in ways
\* that differ only in the error body or error text
InitLeak ==
  InitState(BaseConfig(2), {1},
            [users |-> {1},
             texts |-> {TXT_HI, TXT_LONG},
             outcomes |-> LeakOutcomes,
             max_calls |-> MaxLMCalls])

NextLeak ==
  \/ \E t \in DOMAIN task, u \in env.users, m \in env.texts, b \in 0..MaxBudget :
       LM_Call(t, u, m, b)
  \/ \E t \in DOMAIN task : LM_Begin(t)
  \/ \E t \in DOMAIN task : LM_Post(t)
  \/ \E t \in DOMAIN task, o \in env.outcomes : LM_Response(t, o)
  \/ \E t \in DOMAIN task : LM_Wake(t)

SpecLeak == InitLeak /\ [][NextLeak]_vars

\* ---- two coroutines call send_to_lm_studio for one user and their calls
\* overlap in every way; nothing clears the history
InitLM2 ==
  \E n \in {2, MaxHistory} :
    InitState(BaseConfig(n), TaskIds,
              [users |-> {1},
               texts |-> {TXT_HI, TXT_YO},
               outcomes |-> {Response(200, TRUE, ReplyBody(R_OK)),
                             Response(503, TRUE, EmptyDict)},
               max_calls |-> MaxOverlapCalls])

NextLM2 ==
  \/ \E t \in DOMAIN task, u \in env.users, m \in env.texts, b \in 0..1 :
       LM_Call(t, u, m, b)
  \/ \E t \in DOMAIN task : LM_Begin(t)
  \/ \E t \in DOMAIN task : LM_Post(t)
  \/ \E t \in DOMAIN task, o \in env.outcomes : LM_Response(t, o)
  \/ \E t \in DOMAIN task : LM_Wake(t)

SpecLM2 == InitLM2 /\ [][NextLM2]_vars

URL_EVIL ==
  <<"h", "t", "t", "p", ":", "/", "/", "e", "v", "i", "l", ".", "e",
    "x", "a", "m", "p", "l", "e", ".", "c", "o", "m">>

\* values of LM_STUDIO_URL
Urls ==
  { URL_EVIL, DEFAULT_LM_STUDIO_URL, <<>>,
    \* "http://localhost:1234"
    <<"h", "t", "t", "p", ":", "/", "/", "l", "o", "c", "a", "l", "h",
     "o", "s", "t", ":", "1", "2", "3", "4">>,
    \* "HTTP://LocalHost:1234"
    <<"H", "T", "T", "P", ":", "/", "/", "L", "o", "c", "a", "l", "H",
     "o", "s", "t", ":", "1", "2", "3", "4">>,
    \* "https://127.0.0.1"
    <<"h", "t", "t", "p", "s", ":", "/", "/", "1", "2", "7", ".", "0",
     ".", "0", ".", "1">>,
    \* "https://localhost"
    <<"h", "t", "t", "p", "s", ":", "/", "/", "l", "o", "c", "a", "l",
     "h", "o", "s", "t">>,
    \* "ftp://localhost"
    <<"f", "t", "p", ":", "/", "/", "l", "o", "c", "a", "l", "h", "o",
     "s", "t">>,
    \* "localhost:1234"
    <<"l", "o", "c", "a", "l", "h", "o", "s", "t", ":", "1", "2", "3",
     "4">>,
    \* "http://127.0.0.2"
    <<"h", "t", "t", "p", ":", "/", "/", "1", "2", "7", ".", "0", ".",
     "0", ".", "2">>,
    \* " http://localhost "
    <<" ", "h", "t", "t", "p", ":", "/", "/", "l", "o", "c", "a", "l",
     "h", "o", "s", "t", " ">>,
    \* "http://localhost.evil.example.com"
    <<"h", "t", "t", "p", ":", "/", "/", "l", "o", "c", "a", "l", "h",
     "o", "s", "t", ".", "e", "v", "i", "l", ".", "e", "x", "a", "m",
     "p", "l", "e", ".", "c", "o", "m">>,
    \* "http://evil.example.com/http://localhost"
    <<"h", "t", "t", "p", ":", "/", "/", "e", "v", "i", "l", ".", "e",
     "x", "a", "m", "p", "l", "e", ".", "c", "o", "m", "/", "h", "t",
     "t", "p", ":", "/", "/", "l", "o", "c", "a", "l", "h", "o", "s",
     "t">> }

\* os.environ after load_dotenv: each of the three variables set or not
Environs ==
  {[k \in keys |-> CASE k = "TELEGRAM_BOT_TOKEN" -> <<"t", "o", "k">>
                     [] k = "USER_WHITELIST" -> <<"1", "2">>
                     [] k = "LM_STUDIO_URL" -> url] :
     keys \in SUBSET {"TELEGRAM_BOT_TOKEN", "USER_WHITELIST", "LM_STUDIO_URL"},
     url \in Urls}

\* ---- the process starts: main runs once
InitMain ==
  \E environ \in Environs :
    InitState(EmptyDict, {1}, [environ |-> environ])

NextMain ==
  \/ \E t \in DOMAIN task : Main_Load(t)
  \/ \E t \in DOMAIN task, made \in BOOLEAN : Main_Dirs(t, made)
  \/ \E t \in DOMAIN task, built \in BOOLEAN : Main_Build(t, built)
  \/ \E t \in DOMAIN task : Main_Poll(t)

SpecMain == InitMain /\ [][NextMain]_vars

\* ---- /status sent again and again while the endpoint answers, fails or is
\* not there
InitStatus ==
  InitState(BaseConfig(0), {1},
            [users |-> Users, texts |-> {}, outcomes |-> ProbeOutcomes,
             max_calls |-> MaxStatusCalls])

NextStatus ==
  \/ \E t \in DOMAIN task, u \in env.users, session_ok \in BOOLEAN :
       ST_Begin(t, u, session_ok)
  \/ \E t \in DOMAIN task, o \in env.outcomes : ST_Response(t, o)

SpecStatus == InitStatus /\ [][NextStatus]_vars

\* ---- sanitize_input applied to a text and then to its own result
SanTexts == UNION {[1..n -> {"a", " ", "\t", "BEL"}] : n \in 0..MaxSanText}

\* a direct call of sanitize_input(text, max_length)
SanCall(t, text, max_length) ==
  /\ task[t].pc = "idle"
  /\ task' = [task EXCEPT ![t] = [IdleTask EXCEPT !.pc = "san_once",
                                                  !.entry = "sanitize_input",
                                                  !.text = text,
                                                  !.max_length = max_length,
                                                  !.message = sanitize_input(text, max_length)]]
  /\ UNCHANGED <<config, conversation_memory, user_rate_limits, rate_limit_locks,
                 clock, env, rl_log, last_exchange, ncalls>>

\* sanitize_input called on the result of the first call; its result is kept
\* in safe_message
SanAgain(t) ==
  /\ task[t].pc = "san_once"
  /\ task' = [task EXCEPT ![t].pc = "san_twice",
                          ![t].safe_message =
                             sanitize_input(task[t].message, task[t].max_length)]
  /\ UNCHANGED <<config, conversation_memory, user_rate_limits, rate_limit_locks,
                 clock, env, rl_log, last_exchange, ncalls>>

InitSan ==
  InitState(BaseConfig(0), {1},
            [users |-> {1}, texts |-> SanTexts, outcomes |-> {}, max_calls |-> 1])

NextSan ==
  \/ \E t \in DOMAIN task, text \in env.texts, max_length \in 0..MaxSanLen :
       SanCall(t, text, max_length)
  \/ \E t \in DOMAIN task : SanAgain(t)

SpecSan == InitSan /\ [][NextSan]_vars

\* ---- chunk_message called once, with a short text and a small limit or
\* with a long text and the limit of the transport
SmallTexts ==
  UNION {[1..n -> {"a", " ", "\n"}] : n \in 0..MaxChunkText}

\* a text of n characters with the character ch at every period-th place
BigMessage(n, period, ch) ==
  [i \in 1..n |-> IF period > 0 /\ i % period = 0 THEN ch ELSE "a"]

\* lengths around the limit and twice the limit, and 9000; break characters
\* nowhere, everywhere, and around the ends of the lookback
BigMessages ==
  LET lengths ==
        {TELEGRAM_MAX_MESSAGE_LENGTH, TELEGRAM_MAX_MESSAGE_LENGTH + 1,
         2 * TELEGRAM_MAX_MESSAGE_LENGTH, 2 * TELEGRAM_MAX_MESSAGE_LENGTH + 1, 9000}
      periods ==
        {0, 1, 7, BREAK_LOOKBACK - 1, BREAK_LOOKBACK, BREAK_LOOKBACK + 1,
         TELEGRAM_MAX_MESSAGE_LENGTH - BREAK_LOOKBACK + 1,
         TELEGRAM_MAX_MESSAGE_LENGTH - BREAK_LOOKBACK + 2,
         TELEGRAM_MAX_MESSAGE_LENGTH - 1, TELEGRAM_MAX_MESSAGE_LENGTH}
  IN {BigMessage(n, p, ch) : n \in lengths, p \in periods, ch \in {" ", "\n"}}

\* a direct call of chunk_message(message, max_length)
ChunkCall(t, message, max_length) ==
  /\ task[t].pc = "idle"
  /\ task' = [task EXCEPT ![t] = [IdleTask EXCEPT !.pc = "chunk_done",
                                                  !.entry = "chunk_message",
                                                  !.text = message,
                                                  !.max_length = max_length,
                                                  !.replies = chunk_message(message, max_length)]]
  /\ UNCHANGED <<config, conversation_memory, user_rate_limits, rate_limit_locks,
                 clock, env, rl_log, last_exchange, ncalls>>

InitChunk ==
  InitState(BaseConfig(0), {1},
            [users |-> {1}, texts |-> SmallTexts, outcomes |-> {}, max_calls |-> 1])

NextChunk ==
  \/ \E t \in DOMAIN task, m \in env.texts, max_length \in 1..MaxChunkLen :
       ChunkCall(t, m, max_length)
  \/ \E t \in DOMAIN task, m \in BigMessages :
       ChunkCall(t, m, TELEGRAM_MAX_MESSAGE_LENGTH)

SpecChunk == InitChunk /\ [][NextChunk]_vars

\* ---- update_conversation_history called k times from an empty history
InitMem ==
  \E n \in 0..MaxHistory :
    InitState(BaseConfig(n), {1},
              [users |-> {1}, texts |-> {TXT_HI, TXT_YO}, outcomes |-> {},
               max_calls |-> MaxAppends])

NextMem ==
  \E u \in env.users, m \in env.texts, r \in {R_OK, TXT_HI} : MemUpdate(u, m, r)

SpecMem == InitMem /\ [][NextMem]_vars

\* ================================================================== claims
Last(seq) == seq[Len(seq)]

Min(a, b) == IF a < b THEN a ELSE b

\* ------------------------------------------------------------------- C1
\* the calls of user 1, in order, each with its time and its result
Calls == rl_log[1]

WithinOneWindow(i) == Calls[i].t - Calls[1].t < RATE_LIMIT_WINDOW

WindowElapsed(i) ==
  \A j \in 1..(i - 1) : Calls[j].ok => Calls[i].t - Calls[j].t >= RATE_LIMIT_WINDOW

\* a finished handle_message of a whitelisted user that went through the
\* rate limiter
RateLimited(t) ==
  /\ task[t].entry = "handle_message"
  /\ task[t].pc = "hm_done"
  /\ ~StartsWithSlash(task[t].text)
  /\ ToStr(task[t].user_id) \in config.user_whitelist

\* C1: while all of a user's check_rate_limit calls fall within one 60-second
\* window, exactly the first 10 return True and every later one returns
\* False, and the rejected message is answered with the throttle reply and
\* nothing else; a call made once 60 seconds have passed since every admitted
\* call is admitted again.
C1_WindowOfTen ==
  /\ \A i \in DOMAIN Calls :
       /\ WithinOneWindow(i) => (Calls[i].ok <=> i <= RATE_LIMIT_MAX_MESSAGES)
       /\ WindowElapsed(i) => Calls[i].ok
  /\ \A t \in DOMAIN task :
       RateLimited(t) =>
         IF task[t].allowed THEN task[t].replies # <<T_TOO_MANY>>
         ELSE task[t].replies = <<T_TOO_MANY>> /\ task[t].posts = 0

\* ten admitted, the eleventh rejected inside the window and answered with the
\* throttle reply, and the window has since elapsed and a twelfth was admitted
C1_Witness ==
  /\ Len(Calls) = RATE_LIMIT_MAX_MESSAGES + 2
  /\ WithinOneWindow(RATE_LIMIT_MAX_MESSAGES + 1)
  /\ ~Calls[RATE_LIMIT_MAX_MESSAGES + 1].ok
  /\ Calls[RATE_LIMIT_MAX_MESSAGES + 2].ok
  /\ Calls[RATE_LIMIT_MAX_MESSAGES + 2].t - Calls[RATE_LIMIT_MAX_MESSAGES].t = RATE_LIMIT_WINDOW

\* ------------------------------------------------------------------- C2
InCritical(t) == task[t].pc \in {"rl_read", "rl_decide"}

AdmittedInWindowEndingAt(log, end) ==
  Cardinality({i \in DOMAIN log : log[i].ok /\ log[i].t > end - RATE_LIMIT_WINDOW /\ log[i].t <= end})

\* C2: under every interleaving of concurrent check_rate_limit calls, two
\* calls for the same user are never inside the locked section together, and
\* no trailing 60-second window holds more than 10 admitted calls of a user.
C2_Serialized ==
  /\ \A t1, t2 \in DOMAIN task :
       (t1 # t2 /\ InCritical(t1) /\ InCritical(t2)) => task[t1].user_id # task[t2].user_id
  /\ \A u \in Users : \A i \in DOMAIN rl_log[u] :
       AdmittedInWindowEndingAt(rl_log[u], rl_log[u][i].t) <= RATE_LIMIT_MAX_MESSAGES

\* one call holds the lock having seen 9 entries while the other call for the
\* same user waits for the lock
C2_Witness ==
  \E t1, t2 \in DOMAIN task :
    /\ t1 # t2
    /\ task[t1].pc = "rl_decide"
    /\ Len(task[t1].recent) = RATE_LIMIT_MAX_MESSAGES - 1
    /\ task[t2].pc = "rl_lock"
    /\ task[t2].user_id = task[t1].user_id
    /\ rate_limit_locks[task[t1].user_id] = t1

\* ------------------------------------------------------------------- C3
NotWhitelisted(t) ==
  /\ task[t].entry = "handle_message"
  /\ ToStr(task[t].user_id) \notin config.user_whitelist

\* C3 as stated: every message of a user outside the whitelist is answered
\* with the denial reply, and no POST is made for it.
C3_AnyMessageDenied ==
  \A t \in DOMAIN task :
    NotWhitelisted(t) =>
      /\ task[t].pc = "hm_done"
      /\ task[t].replies = <<T_NOT_AUTHORIZED>>
      /\ task[t].posts = 0

\* C3, amended: a message of a user outside the whitelist never gets past the
\* authorisation check and no POST is made for it; it is answered with the
\* denial reply unless its text starts with "/", in which case it is dropped
\* without any reply.
C3_DeniedUnlessSlash ==
  \A t \in DOMAIN task :
    NotWhitelisted(t) =>
      /\ task[t].pc = "hm_done"
      /\ task[t].posts = 0
      /\ task[t].request = <<>>
      /\ task[t].replies =
           IF StartsWithSlash(task[t].text) THEN <<>> ELSE <<T_NOT_AUTHORIZED>>

C3_Witness ==
  \E t \in DOMAIN task :
    /\ NotWhitelisted(t)
    /\ task[t].text = TXT_HI
    /\ task[t].replies = <<T_NOT_AUTHORIZED>>
    /\ conversation_memory # EmptyDict

\* ------------------------------------------------------------------- C4
Stored == DictGet(conversation_memory, 1, <<>>)

HistoryLimit == config.max_conversation_history

\* C4 as stated: after k calls from an empty history with max_history = N > 0
\* the stored sequence has length min(2k, N) and its last two entries are the
\* user entry and the assistant entry of the latest call.
C4_LengthAndLastPair ==
  (HistoryLimit > 0 /\ ncalls > 0) =>
    /\ Len(Stored) = Min(2 * ncalls, HistoryLimit)
    /\ Len(Stored) >= 2
    /\ SubSeq(Stored, Len(Stored) - 1, Len(Stored)) = last_exchange[1]

\* C4, amended: the stored sequence has length min(2k, N); its last entry is
\* the assistant entry of the latest call, and for N >= 2 its last two entries
\* are the user entry and the assistant entry of the latest call.
C4_LengthAndLastEntries ==
  (HistoryLimit > 0 /\ ncalls > 0) =>
    /\ Len(Stored) = Min(2 * ncalls, HistoryLimit)
    /\ Last(Stored) = last_exchange[1][2]
    /\ HistoryLimit >= 2 => SubSeq(Stored, Len(Stored) - 1, Len(Stored)) = last_exchange[1]

\* three calls with N = 3: the trim has cut the oldest entry
C4_Witness ==
  /\ HistoryLimit = 3
  /\ ncalls = 3
  /\ Len(Stored) = 3
  /\ Stored[1].role = "assistant"
  /\ Stored[2] = Entry("user", TXT_YO)

\* ------------------------------------------------------------------- C5
RECURSIVE OneTo(_)
OneTo(k) == IF k <= 0 THEN <<>> ELSE Append(OneTo(k - 1), k)

Returned(t) == task[t].entry = "send_to_lm_studio" /\ task[t].pc = "lm_returned"

\* the attempts of the call were k retryable failures and then a valid 200
RetriedThenValid(t, k) ==
  /\ Len(task[t].outcomes) = k + 1
  /\ \A i \in 1..k : task[t].outcomes[i] = "retryable"
  /\ task[t].outcomes[k + 1] = "valid"

Attempting(t) == task[t].pc = "lm_wait"

\* the attempt of task t ends in this step
AttemptEnds(t) == task[t].pc = "lm_wait" /\ task'[t].pc # "lm_wait"

Done(t) == task'[t].pc = "lm_returned" /\ task'[t].result.success

Failed(t) == task'[t].pc = "lm_returned" /\ ~task'[t].result.success

\* the backoff sleep, after which attempt n + 1 is made
ToNextAttempt(t) ==
  /\ task'[t].pc = "lm_sleep"
  /\ task'[t].attempt = task[t].attempt
  /\ task'[t].posts = task[t].posts

StateMachineStep(t) ==
  LET n == task[t].attempt
      budget == task[t].max_retries
      kind == Last(task'[t].outcomes)
  IN
  /\ AttemptEnds(t) =>
       CASE kind = "valid" -> Done(t)
         [] kind = "retryable" /\ n < budget -> ToNextAttempt(t)
         [] kind = "retryable" /\ n >= budget -> Failed(t)
         [] OTHER -> Failed(t)
  /\ task[t].pc = "lm_sleep" /\ task'[t].pc # "lm_sleep" =>
       task'[t].pc = "lm_post" /\ task'[t].attempt = task[t].attempt + 1
  /\ task[t].pc = "lm_post" /\ task'[t].pc # "lm_post" =>
       task'[t].pc = "lm_wait" /\ task'[t].posts = task[t].posts + 1

PostsWithinBudget ==
  \A t \in DOMAIN task :
    /\ task[t].posts <= task[t].max_retries + 1
    /\ Attempting(t) => task[t].attempt <= task[t].max_retries /\ task[t].posts = task[t].attempt + 1

\* C6: an attempt that succeeds ends the call with success; a retryable
\* failure at attempt n < budget leads to attempt n + 1; a retryable failure
\* at n = budget, and any other failure at any n, ends the call with failure;
\* a call never makes more than budget + 1 POSTs; every call that has begun
\* returns.
C6_StateMachine ==
  /\ [][\A t \in DOMAIN task : StateMachineStep(t)]_vars
  /\ []PostsWithinBudget
  /\ \A t \in TaskIds :
       (t \in DOMAIN task /\ task[t].pc = "lm_begin")
         ~> (t \in DOMAIN task /\ task[t].pc = "lm_returned")

\* the budget is used up by retryable failures: budget + 1 POSTs, failure
C6_Witness ==
  \E t \in DOMAIN task :
    /\ Returned(t)
    /\ task[t].max_retries = DEFAULT_MAX_RETRIES
    /\ task[t].outcomes = <<"retryable", "retryable", "retryable">>
    /\ task[t].posts = DEFAULT_MAX_RETRIES + 1
    /\ ~task[t].result.success

\* ------------------------------------------------------------------- C7
\* the attempt of task t ends in this step with an outcome of this kind
EndsWith(t, kind) == AttemptEnds(t) /\ Last(task'[t].outcomes) = kind

HistoryPart(request) == SubSeq(request, 2, Len(request) - 1)

RequestBuilt(t) ==
  task[t].entry = "send_to_lm_studio" /\ task[t].pc \in {"lm_post", "lm_wait", "lm_sleep"}

\* C9: with max_history >= 2, when a call has returned success and no clear
\* has followed, the stored history ends with the pair (sanitised user
\* message, reply) of that call; and the request of the next call for that
\* user carries that pair as the last two entries of its history part.
C9_NextCallSeesPair ==
  \A t \in DOMAIN task :
    LET u == task[t].user_id IN
    /\ (Returned(t) /\ task[t].result.success /\ task[t].max_history >= 2
          /\ last_exchange[u] # <<>>) =>
         /\ last_exchange[u] = <<Entry("user", sanitize_for_lm_studio(task[t].message)),
                                 Entry("assistant", task[t].result.text)>>
         /\ LastN(DictGet(conversation_memory, u, <<>>), 2) = last_exchange[u]
    /\ (RequestBuilt(t) /\ task[t].max_history >= 2 /\ task[t].prev_pair # <<>>) =>
         LastN(HistoryPart(task[t].request), 2) = task[t].prev_pair

\* the second call's request carries the pair of the first, whose user entry
\* is the sanitised text
C9_Witness ==
  \E t \in DOMAIN task :
    /\ RequestBuilt(t)
    /\ task[t].prev_pair = <<Entry("user", TXT_YO), Entry("assistant", R_HEY)>>
    /\ task[t].request = <<Entry("system", SYSTEM_PROMPT)>> \o task[t].prev_pair
                           \o <<Entry("user", TXT_HI)>>

\* ------------------------------------------------------------------ C10
\* C10: a call whose message is longer than max_message_length returns a
\* failure in its first step: no POST is made and conversation memory is
\* left as it was.
C10_TooLongRejected ==
  [][\A t \in DOMAIN task :
       (task[t].pc = "lm_begin" /\ task'[t].pc # "lm_begin"
          /\ Len(task[t].message) > config.max_message_length) =>
         /\ Failed(t)
         /\ task'[t].result.text = T_TOO_LONG(config.max_message_length)
         /\ task'[t].posts = 0
         /\ task'[t].request = <<>>
         /\ conversation_memory' = conversation_memory]_vars

C10_Witness ==
  \E t \in DOMAIN task :
    /\ Returned(t)
    /\ task[t].message = TXT_LONG
    /\ task[t].posts = 0
    /\ task[t].result = [success |-> FALSE, text |-> T_TOO_LONG(10)]
    /\ DictGet(conversation_memory, task[t].user_id, <<>>) # <<>>

\* ------------------------------------------------------------------ C11
\* an update of handle_message that has ended, sent by a whitelisted user whom
\* the rate limiter admitted, whose text is longer than max_message_length
OversizedAdmitted(t) ==
  /\ task[t].entry = "handle_message"
  /\ task[t].pc = "hm_done"
  /\ ~StartsWithSlash(task[t].text)
  /\ ToStr(task[t].user_id) \in config.user_whitelist
  /\ task[t].allowed
  /\ Len(task[t].text) > config.max_message_length

\* C11: an oversized message of an authorized, admitted user is answered with
\* a fixed rejection message and no POST to the inference endpoint is made for
\* it.
C11_OversizedRejected ==
  \A t \in DOMAIN task :
    OversizedAdmitted(t) =>
      /\ task[t].posts = 0
      /\ task[t].replies \in {<<T_INVALID_MESSAGE>>,
                              <<T_TOO_LONG(config.max_message_length)>>}

\* ------------------------------------------------------------------ C12
\* the texts a failed call can return: literals, and the too-long text that
\* holds the configured limit
FixedFailureTexts ==
  {T_INVALID_RESPONSE, T_EMPTY_RESPONSE, T_SERVICE_ERROR, T_TIMED_OUT,
   T_CANNOT_CONNECT, T_UNEXPECTED, T_TOO_LONG(config.max_message_length)}

\* an upstream error: an exception, or a response that is not a 200
IsUpstreamError(o) == o.kind # "response" \/ o.status # 200

\* two upstream errors that differ at most in the error body or error text
DifferOnlyInBody(o1, o2) ==
  /\ IsUpstreamError(o1)
  /\ o1.kind = o2.kind
  /\ o1.status = o2.status

\* C12: every failure result carries a text of the fixed set, and an attempt
\* that ends with either of two upstream errors differing only in their error
\* body or error text continues or returns identically, with the same text.
C12_FailureTextIsFixed ==
  \A t \in DOMAIN task :
    /\ (Returned(t) /\ ~task[t].result.success) =>
         task[t].result.text \in FixedFailureTexts
    /\ (task[t].entry = "send_to_lm_studio" /\ task[t].pc = "lm_wait") =>
         \A o1, o2 \in env.outcomes :
           DifferOnlyInBody(o1, o2) =>
             AttemptStep(o1, task[t].attempt, task[t].max_retries)
               = AttemptStep(o2, task[t].attempt, task[t].max_retries)

\* a call failed on a 404 whose body held text, after a retried 503 or
\* exception whose detail the user never saw
C12_Witness ==
  \E t \in DOMAIN task :
    /\ Returned(t)
    /\ task[t].last = Response(404, TRUE, <<"k", "e", "y">>)
    /\ task[t].outcomes = <<"retryable", "terminal_status">>
    /\ task[t].result = [success |-> FALSE, text |-> T_SERVICE_ERROR]

\* ------------------------------------------------------------------ C13
RECURSIVE Concat(_)
Concat(chunks) == IF chunks = <<>> THEN <<>> ELSE Head(chunks) \o Concat(Tail(chunks))

ChunkDone(t) == task[t].entry = "chunk_message" /\ task[t].pc = "chunk_done"

\* C13: the chunks of a message are each at most max_length long and their
\* concatenation in order is the message; at the limit of 4096 a message of
\* 9000 characters gives exactly 3 chunks.
C13_ChunksCoverMessage ==
  \A t \in DOMAIN task :
    ChunkDone(t) =>
      /\ \A i \in 1..Len(task[t].replies) : Len(task[t].replies[i]) <= task[t].max_length
      /\ Concat(task[t].replies) = task[t].text
      /\ (task[t].max_length = 4096 /\ Len(task[t].text) = 9000) =>
           Len(task[t].replies) = 3

\* a message of 9000 characters cut at the limit of 4096 into 3 chunks, the
\* first of them ended early at a space
C13_Witness ==
  \E t \in DOMAIN task :
    /\ ChunkDone(t)
    /\ task[t].max_length = 4096
    /\ Len(task[t].text) = 9000
    /\ Len(task[t].replies) = 3
    /\ Len(task[t].replies[1]) < 4096
    /\ Last(task[t].replies[1]) = " "

\* ------------------------------------------------------------------ C14
\* a /status whose probe was sent and has ended
Probed(t) ==
  /\ task[t].entry = "status_command"
  /\ task[t].pc = "st_done"
  /\ task[t].trace = <<"get", "reply">>

\* the endpoint could not be reached: connection error or probe timeout
Unreachable(o) == o.kind \in {"client_error", "timeout"}

\* C14: /status reports 'responding' when the probe returns 200, 'running but
\* erroring' when it returns another status, and a third, distinct outcome
\* when the endpoint cannot be reached.
C14_ThreeOutcomes ==
  \A t \in DOMAIN task :
    Probed(t) =>
      /\ (task[t].last.kind = "response" /\ task[t].last.status = 200) =>
           task[t].replies = <<T_STATUS_OK>>
      /\ (task[t].last.kind = "response" /\ task[t].last.status # 200) =>
           task[t].replies = <<T_STATUS_BAD>>
      /\ Unreachable(task[t].last) =>
           task[t].replies \notin {<<T_STATUS_OK>>, <<T_STATUS_BAD>>}

\* ------------------------------------------------------------------ C15
\* LM_STUDIO_URL as the process reads it: the default when it is not set
UrlInUse == DictGet(env.environ, "LM_STUDIO_URL", DEFAULT_LM_STUDIO_URL)

\* the text begins, without regard to case, with one of the four prefixes
BeginsWithLocalPrefix(url) ==
  \E prefix \in allowed_patterns : HasPrefixCI(url, prefix)

\* main has run load_config
MainRan(t) == task[t].entry = "main" /\ task[t].pc # "idle"

\* load_config failed with ConfigurationError and the process did not start
StoppedAtConfiguration(t) ==
  /\ task[t].pc = "main_exit"
  /\ task[t].trace = <<"load_config", "configuration_error">>
  /\ config = EmptyDict

\* C15 as stated: a URL that does not begin with one of the four prefixes
\* makes load_config fail and the process does not start.
C15_BadUrlStops ==
  \A t \in DOMAIN task :
    (MainRan(t) /\ ~BeginsWithLocalPrefix(UrlInUse)) => StoppedAtConfiguration(t)

\* C15: a URL that, once surrounding whitespace is removed, does not begin
\* (case-insensitively) with one of the four prefixes makes load_config fail
\* with ConfigurationError; the configuration is never set, no directory is
\* created and the transport is never built or polled.
C15_BadTrimmedUrlStops ==
  \A t \in DOMAIN task :
    (MainRan(t) /\ ~BeginsWithLocalPrefix(Strip(UrlInUse))) => StoppedAtConfiguration(t)

\* the process was started with a token, a whitelist and the URL
\* http://evil.example.com, and stopped
C15_Witness ==
  \E t \in DOMAIN task :
    /\ MainRan(t)
    /\ DOMAIN env.environ = {"TELEGRAM_BOT_TOKEN", "USER_WHITELIST", "LM_STUDIO_URL"}
    /\ env.environ["LM_STUDIO_URL"] = URL_EVIL
    /\ StoppedAtConfiguration(t)

\* ------------------------------------------------------------------ C16
\* C16: sanitize_input applied to its own result returns that result, and its
\* result is never longer than the maximum, for every maximum m >= 0.
C16_SanitizeIdempotent ==
  \A t \in DOMAIN task :
    /\ task[t].pc \in {"san_once", "san_twice"} =>
         Len(task[t].message) <= task[t].max_length
    /\ task[t].pc = "san_twice" => task[t].safe_message = task[t].message

\* a text with a control character between a space and a letter, cut at 2:
\* the cut leaves a trailing space, which is stripped
C16_Witness ==
  \E t \in DOMAIN task :
    /\ task[t].pc = "san_twice"
    /\ task[t].text = <<"a", "BEL", " ", "a">>
    /\ task[t].max_length = 2
    /\ task[t].message = <<"a">>
    /\ task[t].safe_message = <<"a">>

\* ------------------------------------------------------------------ C17
\* an update whose inbound or outbound chatlog write failed
LogWriteFailed(t) ==
  /\ task[t].entry = "handle_message"
  /\ \E i \in 1..Len(task[t].logged) : ~task[t].logged[i].ok

\* C17: a failed chatlog write never raises out of log_message, and the
\* update it belongs to still calls the inference client and still sends the
\* reply: when the update has ended, a POST was made, both log calls were made
\* and the reply is the chunked result text.
C17_LogFailureSwallowed ==
  \A t \in DOMAIN task :
    task[t].entry = "handle_message" =>
      /\ \A i \in 1..Len(task[t].trace) : task[t].trace[i] # "raise"
      /\ (LogWriteFailed(t) /\ task[t].pc = "hm_done") =>
           /\ Len(task[t].logged) = 2
           /\ task[t].posts >= 1
           /\ task[t].result.text # <<>>
           /\ task[t].replies = chunk_message(task[t].result.text,
                                              TELEGRAM_MAX_MESSAGE_LENGTH)

\* both writes of one update failed and the user has the reply of the model
C17_Witness ==
  \E t \in DOMAIN task :
    /\ task[t].entry = "handle_message"
    /\ task[t].pc = "hm_done"
    /\ Len(task[t].logged) = 2
    /\ ~task[t].logged[1].ok
    /\ ~task[t].logged[2].ok
    /\ task[t].posts = 1
    /\ task[t].replies = <<R_OK>>

\* ------------------------------------------------------------------ C18
Ledger(u) == DictGet(user_rate_limits, u, <<>>)

\* the admitted calls of a user, as places in the user's log
AdmittedCalls(u) == {i \in 1..Len(rl_log[u]) : rl_log[u][i].ok}

\* C18: once a check_rate_limit call of a user has returned at time t, the
\* stored ledger of that user holds at most 10 timestamps and each of them is
\* newer than t - 60.
C18_LedgerPruned ==
  \A u \in Users :
    rl_log[u] # <<>> =>
      /\ Len(Ledger(u)) <= 10
      /\ \A i \in 1..Len(Ledger(u)) : Ledger(u)[i] > Last(rl_log[u]).t - 60

\* a check returned after the window of earlier admitted calls had passed:
\* the ledger holds fewer timestamps than calls were admitted
C18_Witness ==
  \E u \in Users :
    /\ Cardinality(AdmittedCalls(u)) >= 11
    /\ Len(Ledger(u)) = 1
    /\ Last(rl_log[u]).t = 60

\* ------------------------------------------------------------------ C19
\* task t returns from check_rate_limit in this step
RL_Returns(t) == task[t].pc = "rl_decide" /\ task'[t].pc = "rl_done"

\* C19: a check_rate_limit call that returns False leaves the ledger as it
\* was: the ledger changes only in the step in which a call returns True, and
\* it holds nothing but the times of admitted calls.
C19_RejectedRecordsNothing ==
  /\ [][/\ \A t \in DOMAIN task :
             (RL_Returns(t) /\ ~task'[t].allowed) => user_rate_limits' = user_rate_limits
        /\ user_rate_limits' # user_rate_limits =>
             \E t \in DOMAIN task : RL_Returns(t) /\ task'[t].allowed]_vars
  /\ [](\A u \in Users : \A i \in 1..Len(Ledger(u)) :
          \E j \in AdmittedCalls(u) : rl_log[u][j].t = Ledger(u)[i])

\* a call was refused while the ledger held ten timestamps, and a later call,
\* made when those had left the window, was admitted
C19_Witness ==
  \E u \in Users :
    \E i, j \in 1..Len(rl_log[u]) :
      /\ i < j
      /\ ~rl_log[u][i].ok
      /\ rl_log[u][j].ok
      /\ rl_log[u][j].t = 60
      /\ Ledger(u) = <<60>>

\* ------------------------------------------------------------------ C20
\* the user whose check task t is running
CheckingFor(t, u) ==
  task[t].entry = "check_rate_limit" /\ task[t].pc # "idle" /\ task[t].user_id = u

\* the admitted calls of u before call i whose time is inside the window of
\* call i
AdmittedBefore(u, i) ==
  {j \in 1..(i - 1) : rl_log[u][j].ok /\ rl_log[u][j].t > rl_log[u][i].t - 60}

\* C20: a step of a check for user A leaves the ledger and the lock of every
\* other user B as they were; a check for A waits only while A's own lock is
\* held; every decision for A is the count of A's own admitted timestamps
\* inside the window against the limit.
C20_UsersIndependent ==
  /\ [][\A t \in DOMAIN task :
          task'[t] # task[t] =>
            \A b \in Users \ {task'[t].user_id} :
              /\ DictGet(user_rate_limits', b, <<>>) = DictGet(user_rate_limits, b, <<>>)
              /\ DictGet(rate_limit_locks', b, 0) = DictGet(rate_limit_locks, b, 0)
              /\ rl_log'[b] = rl_log[b]]_vars
  /\ [](\A t \in DOMAIN task :
          (task[t].pc = "rl_lock" /\ DictGet(rate_limit_locks, task[t].user_id, 0) = 0) =>
            ENABLED RL_Acquire(t))
  /\ [](\A u \in Users : \A i \in 1..Len(rl_log[u]) :
          rl_log[u][i].ok <=> Cardinality(AdmittedBefore(u, i)) < 10)

\* the two coroutines are inside the critical sections of two users at once,
\* after the one user was refused and before the other was ever checked
C20_Witness ==
  /\ CheckingFor(1, 1) /\ task[1].pc = "rl_decide"
  /\ CheckingFor(2, 2) /\ task[2].pc = "rl_decide"
  /\ rate_limit_locks[1] = 1
  /\ rate_limit_locks[2] = 2
  /\ Len(rl_log[1]) = 11 /\ ~rl_log[1][11].ok
  /\ rl_log[2] = <<>>

\* ------------------------------------------------------------------ C21
\* task t takes a step of a send_to_lm_studio call
CallStep(t) == task'[t] # task[t] /\ task'[t].entry = "send_to_lm_studio"

\* the step in which the call returns (True, reply)
SuccessReturn(t) ==
  /\ task[t].pc = "lm_wait"
  /\ task'[t].pc = "lm_returned"
  /\ task'[t].result.success

\* C21: conversation memory changes only on a successful exchange: no step of
\* a send_to_lm_studio call other than its successful return changes any
\* user's stored history, so a call that returns failure leaves every history
\* as it was when the call started.
C21_FailureLeavesMemory ==
  [][\A t \in DOMAIN task :
       (CallStep(t) /\ ~SuccessReturn(t)) => conversation_memory' = conversation_memory]_vars

\* a call that used up its retries returned failure with a non-empty history
\* still as it was when the call began
C21_Witness ==
  \E t \in DOMAIN task :
    /\ Returned(t)
    /\ ~task[t].result.success
    /\ task[t].outcomes = <<"retryable", "retryable", "retryable">>
    /\ task[t].posts = 3
    /\ DictGet(task[t].mem0, task[t].user_id, <<>>) # <<>>
    /\ conversation_memory = task[t].mem0

\* ------------------------------------------------------------------ C22
\* the message of an update handled by t passed the whitelist, the rate limit
\* and the emptiness test
Processed(t) ==
  /\ task[t].entry = "handle_message"
  /\ ~StartsWithSlash(task[t].text)
  /\ is_user_allowed(task[t].user_id, config)
  /\ task[t].allowed
  /\ sanitize_input(task[t].text,
                    DictGet(config, "max_message_length", DEFAULT_MAX_MESSAGE_LENGTH)) # <<>>

\* the steps between the typing indicator and the second log_message are
\* those of the inference client
ClientSteps(trace, first, last) ==
  \A i \in first..last : trace[i] \in {"post", "sleep"}

\* the failure messages send_to_lm_studio can return to handle_message
FailureTexts ==
  {T_INVALID_RESPONSE, T_EMPTY_RESPONSE, T_SERVICE_ERROR, T_TIMED_OUT, T_CANNOT_CONNECT,
   T_UNEXPECTED, T_TOO_LONG(DictGet(config, "max_message_length", DEFAULT_MAX_MESSAGE_LENGTH))}

CommandRan(t) ==
  /\ task'[t] # task[t]
  /\ task'[t].entry \in {"new_command", "reset_command"}
  /\ task'[t].pc = "cmd_done"

\* values of the max_history argument, below, at and above what can be stored
HistoryArgs == (0 - 1)..(MaxHistory + 1)

\* C23: after clear_conversation_memory(user) has run (as /new and /reset run
\* it), get_conversation_history(user, N) is empty for every N, and every
\* other user's stored history is what it was.
C23_ClearEmptiesOneUser ==
  [][\A t \in DOMAIN task :
       CommandRan(t) =>
         LET u == task'[t].user_id IN
         /\ \A N \in HistoryArgs :
              get_conversation_history(conversation_memory', u, N) = <<>>
         /\ \A v \in Users \ {u} :
              /\ (v \in DOMAIN conversation_memory') <=> (v \in DOMAIN conversation_memory)
              /\ DictGet(conversation_memory', v, <<>>) = DictGet(conversation_memory, v, <<>>)]_vars

\* /reset by user 1 has emptied a stored history while user 2's is kept
C23_Witness ==
  \E t \in DOMAIN task :
    /\ task[t].entry = "reset_command"
    /\ task[t].pc = "cmd_done"
    /\ task[t].user_id = 1
    /\ 1 \in DOMAIN conversation_memory
    /\ conversation_memory[1] = <<>>
    /\ last_exchange[1] = <<>>
    /\ DictGet(conversation_memory, 2, <<>>) # <<>>

\* ------------------------------------------------------------------ C26
Whitelisted(u) == ToStr(u) \in DictGet(config, "user_whitelist", {})

\* the keys of the three per-user maps of BotState
StateKeys ==
  DOMAIN user_rate_limits \cup DOMAIN rate_limit_locks \cup DOMAIN conversation_memory

KeysWhitelisted == \A u \in StateKeys : Whitelisted(u)

\* a step of an update (message or command) sent by a user off the whitelist
UnlistedStep ==
  \E t \in DOMAIN task :
    /\ task'[t] # task[t]
    /\ task'[t].entry \in {"handle_message", "new_command", "reset_command"}
    /\ ~Whitelisted(task'[t].user_id)

\* C26: the keys of the rate-limit ledger, of the lock map and of the
\* conversation memory are always whitelisted users, and no step of a message
\* or of /new or /reset sent by a user off the whitelist changes any of the
\* three maps.
C26_OnlyWhitelistedState ==
  /\ []KeysWhitelisted
  /\ [][UnlistedStep =>
          /\ user_rate_limits' = user_rate_limits
          /\ rate_limit_locks' = rate_limit_locks
          /\ conversation_memory' = conversation_memory]_vars

\* user 3, not on the whitelist, has run /new while a whitelisted user has a
\* stored history: no map has a key for user 3
C26_Witness ==
  \E t \in DOMAIN task :
    /\ task[t].entry = "new_command"
    /\ task[t].pc = "cmd_done"
    /\ task[t].user_id = 3
    /\ ~Whitelisted(3)
    /\ 3 \notin StateKeys
    /\ StateKeys # {}
    /\ \E u \in DOMAIN conversation_memory : conversation_memory[u] # <<>>

\* ------------------------------------------------------------------ C24
\* the exchange of the call of t: the sanitised user message and the reply
Pair(t) ==
  <<Entry("user", task[t].safe_message), Entry("assistant", task[t].result.text)>>

Succeeded(t) == Returned(t) /\ task[t].result.success

\* the calls of t1 and t2 overlapped: one built its request while the other
\* was between building its request and returning
Overlapped(t1, t2) ==
  \/ task[t1].call_id \in task[t2].overlap
  \/ task[t2].call_id \in task[t1].overlap

\* both exchanges are stored as the newest two pairs, the exchange of the call
\* that completed last at the end
BothPairsKept(t1, t2) ==
  \E first, second \in {t1, t2} :
    /\ first # second
    /\ last_exchange[task[second].user_id] = Pair(second)
    /\ LastN(DictGet(conversation_memory, task[second].user_id, <<>>), 4)
         = Pair(first) \o Pair(second)

\* C24: when two send_to_lm_studio calls for one user overlapped and both got
\* a valid 200 reply, then with max_history >= 4 the stored history holds both
\* exchanges, each as a contiguous user-then-assistant pair, in the order the
\* calls completed: every successful return appends its pair to what is stored
\* at that moment, not to the history its request was built from.
C24_OverlapKeepsBoth ==
  /\ [](\A t1, t2 \in DOMAIN task :
          (/\ t1 # t2
           /\ Succeeded(t1) /\ Succeeded(t2)
           /\ task[t1].user_id = task[t2].user_id
           /\ Overlapped(t1, t2)
           /\ HistoryLimit >= 4) => BothPairsKept(t1, t2))
  /\ [][\A t \in DOMAIN task :
          (SuccessReturn(t) /\ HistoryLimit >= 4) =>
            LET u == task[t].user_id IN
            conversation_memory'[u] =
              LastN(DictGet(conversation_memory, u, <<>>)
                      \o <<Entry("user", task'[t].safe_message),
                           Entry("assistant", task'[t].result.text)>>,
                    HistoryLimit)]_vars

\* two overlapping calls with different messages both succeeded; neither
\* request carried any history, and the store holds the pair of call 2 and
\* then the pair of call 1, which completed last
C24_Witness ==
  /\ Succeeded(1) /\ Succeeded(2)
  /\ Overlapped(1, 2)
  /\ HistoryLimit >= 4
  /\ task[1].safe_message # task[2].safe_message
  /\ HistoryPart(task[1].request) = <<>>
  /\ HistoryPart(task[2].request) = <<>>
  /\ last_exchange[1] = Pair(1)
  /\ conversation_memory[1] = Pair(2) \o Pair(1)

\* ------------------------------------------------------------------ C25
\* the history of the user of t was cleared after the call of t had built its
\* request from it: the request carries entries, the store holds an empty list
ClearedWhileWaiting(t) ==
  /\ task[t].entry = "send_to_lm_studio"
  /\ task[t].pc = "lm_wait"
  /\ HistoryPart(task[t].request) # <<>>
  /\ HistoryPart(task[t].request)
       = get_conversation_history(task[t].mem0, task[t].user_id, task[t].max_history)
  /\ task[t].user_id \in DOMAIN conversation_memory
  /\ conversation_memory[task[t].user_id] = <<>>

\* C25: when clear_conversation_memory(user) ran while a call for that user
\* was waiting on the endpoint and the call then succeeds, the stored history
\* afterwards is exactly that call's pair, trimmed to max_history; the entries
\* from before the clear, which the request carried, do not come back.
C25_ClearThenSuccess ==
  [][\A t \in DOMAIN task :
       (ClearedWhileWaiting(t) /\ SuccessReturn(t)) =>
         conversation_memory'[task[t].user_id] =
           LastN(<<Entry("user", task'[t].safe_message),
                   Entry("assistant", task'[t].result.text)>>,
                 task[t].max_history)]_vars

\* a call whose request carried the earlier exchange succeeded after a clear:
\* the store holds its own pair and nothing else
C25_Witness ==
  \E t \in DOMAIN task :
    /\ Succeeded(t)
    /\ Len(HistoryPart(task[t].request)) = 2
    /\ DictGet(task[t].mem0, task[t].user_id, <<>>) # <<>>
    /\ task[t].prev_pair # <<>>
    /\ conversation_memory[task[t].user_id] = Pair(t)
    /\ HistoryLimit >= 4

\* ------------------------------------------------------------------ C27
\* consecutive entries have different roles, each user or assistant
Alternates(history) ==
  /\ \A i \in 1..Len(history) : history[i].role \in {"user", "assistant"}
  /\ \A i \in 1..(Len(history) - 1) : history[i].role # history[i + 1].role

EndsWithAssistant(history) ==
  history # <<>> => history[Len(history)].role = "assistant"

\* C27: every stored history alternates roles and, when it is not empty, ends
\* with an assistant entry; so the history part of every request alternates
\* and ends with an assistant entry, which the current user message follows,
\* for every max_history, odd values included.
C27_RolesAlternate ==
  /\ \A u \in DOMAIN conversation_memory :
       /\ Alternates(conversation_memory[u])
       /\ EndsWithAssistant(conversation_memory[u])
       /\ Len(conversation_memory[u]) <= HistoryLimit
  /\ \A t \in DOMAIN task :
       task[t].request # <<>> =>
         LET request == task[t].request
             n == Len(request)
         IN
         /\ request[1].role = "system"
         /\ request[n] = Entry("user", task[t].safe_message)
         /\ Alternates(HistoryPart(request))
         /\ HistoryPart(request) # <<>> => request[n - 1].role = "assistant"

\* with max_history 1 an exchange leaves only its assistant entry in the
\* store, and the request of the next call is system, assistant, user
C27_Witness ==
  \E t \in DOMAIN task :
    /\ HistoryLimit = 1
    /\ RequestBuilt(t)
    /\ Len(Stored) = 1
    /\ Stored[1].role = "assistant"
    /\ Len(task[t].request) = 3
    /\ task[t].request[2] = Stored[1]
    /\ task[t].request[3].role = "user"
====
